---- MODULE Spec2Model ----
(***************************************************************************)
(* Invoice field extraction (tracker/extraction_utils.py and               *)
(* tracker/utils/pdf_text_extractor.py).                                   *)
(*                                                                         *)
(* A Python str is the sequence of its characters; None and str are told   *)
(* apart by an option record.                                              *)
(***************************************************************************)
EXTENDS Integers, Sequences, FiniteSets, TLC

\* ------------------------------------------------------------------------
\* Bounds of the model
\* ------------------------------------------------------------------------
MaxTextLen == 3

\* ------------------------------------------------------------------------
\* Python values
\* ------------------------------------------------------------------------
None == [some |-> FALSE, v |-> <<>>]
Some(s) == [some |-> TRUE, v |-> s]

\* Python truthiness of an optional str: None and "" are falsy.
Truthy(o) == o.some /\ o.v # <<>>

Whitespace == {" ", "\n", "\r", "\t"}
UpperSeq ==
    <<"A", "B", "C", "D", "E", "F", "G", "H", "I", "J", "K", "L", "M", "N", "O",
      "P", "Q", "R", "S", "T", "U", "V", "W", "X", "Y", "Z">>
LowerSeq ==
    <<"a", "b", "c", "d", "e", "f", "g", "h", "i", "j", "k", "l", "m", "n", "o",
      "p", "q", "r", "s", "t", "u", "v", "w", "x", "y", "z">>
Range(q) == {q[i] : i \in 1 .. Len(q)}
UpperLetters == Range(UpperSeq)
LowerLetters == Range(LowerSeq)
Letters == UpperLetters \cup LowerLetters
Digits == {"0", "1", "2", "3", "4", "5", "6", "7", "8", "9"}
Punct == {":", ".", "-", "/", ",", "+", "@", "#", "=", "_", "%", "\\", "'"}
\* The characters of the texts of the model.
Alphabet == Whitespace \cup Letters \cup Digits \cup Punct
\* [^\n]
NotNewline == Alphabet \ {"\n"}
\* [A-Z0-9] under re.IGNORECASE, and \w
Alnum == Letters \cup Digits
WordChars == Alnum \cup {"_"}

SetMax(S) == CHOOSE x \in S : \A y \in S : y <= x
SetMin(S) == CHOOSE x \in S : \A y \in S : x <= y

\* str.strip(): the longest slice with no whitespace at either end.
RECURSIVE LStrip(_)
LStrip(s) == IF s # <<>> /\ Head(s) \in Whitespace THEN LStrip(Tail(s)) ELSE s
RECURSIVE RStrip(_)
RStrip(s) ==
    IF s # <<>> /\ s[Len(s)] \in Whitespace THEN RStrip(SubSeq(s, 1, Len(s) - 1)) ELSE s
Strip(s) == RStrip(LStrip(s))

\* str.upper() and str.lower(), character by character
IndexOf(q, c) == CHOOSE i \in 1 .. Len(q) : q[i] = c
Upper(s) ==
    [i \in 1 .. Len(s) |->
        IF s[i] \in LowerLetters THEN UpperSeq[IndexOf(LowerSeq, s[i])] ELSE s[i]]
Lower(s) ==
    [i \in 1 .. Len(s) |->
        IF s[i] \in UpperLetters THEN LowerSeq[IndexOf(UpperSeq, s[i])] ELSE s[i]]

\* str.replace(a, b) for one-symbol a, and str.replace(a, '').
ReplaceSym(s, a, b) == [i \in 1 .. Len(s) |-> IF s[i] = a THEN b ELSE s[i]]
RemoveSym(s, a) == SelectSeq(s, LAMBDA c : c # a)

\* str.find(sub): the first offset (from 0) at which sub occurs, or -1.
Occurrences(s, sub) ==
    {i \in 0 .. Len(s) - Len(sub) : SubSeq(s, i + 1, i + Len(sub)) = sub}
Find(s, sub) == IF Occurrences(s, sub) = {} THEN 0 - 1 ELSE SetMin(Occurrences(s, sub))
\* sub in s
Contains(s, sub) == Occurrences(s, sub) # {}

\* s[:n]
Take(s, n) == SubSeq(s, 1, IF Len(s) < n THEN Len(s) ELSE n)

\* str.split(sep) for a one-symbol separator
RECURSIVE Split(_, _)
Split(s, sep) ==
    IF ~Contains(s, <<sep>>) THEN <<s>>
    ELSE LET i == Find(s, <<sep>>)
         IN <<SubSeq(s, 1, i)>> \o Split(SubSeq(s, i + 2, Len(s)), sep)

\* The characters of a string literal, as a str of the model.
Chars(w) == [i \in 1 .. Len(w) |-> SubSeq(w, i, i)]

\* ------------------------------------------------------------------------
\* Regular expressions: re.search with backtracking priorities
\* ------------------------------------------------------------------------
\* A pattern is a sequence of items.  max = -1 stands for "no upper limit".
Unbounded == 0 - 1
Item(t, cls, min, max, greedy, alts) ==
    [t |-> t, cls |-> cls, min |-> min, max |-> max, greedy |-> greedy, alts |-> alts]
Bol == Item("bol", {}, 0, 0, TRUE, <<>>)
Eol == Item("eol", {}, 0, 0, TRUE, <<>>)
Open == Item("open", {}, 0, 0, TRUE, <<>>)
Close == Item("close", {}, 0, 0, TRUE, <<>>)
NotBehind(cls) == Item("nlb", cls, 0, 0, TRUE, <<>>)
NotAhead(cls) == Item("nla", cls, 0, 0, TRUE, <<>>)
Rep(cls, min, max) == Item("rep", cls, min, max, TRUE, <<>>)
RepLazy(cls, min, max) == Item("rep", cls, min, max, FALSE, <<>>)
\* One character; every search of the source is made with re.IGNORECASE.
Fold(c) == Range(Upper(<<c>>)) \cup Range(Lower(<<c>>))
Lit(c) == Rep(Fold(c), 1, 1)
\* A literal word, in any case
Word(w) == <<Item("word", {}, 0, 0, TRUE, [i \in 1 .. Len(w) |-> Fold(SubSeq(w, i, i))] \o <<>>)>>
Star(cls) == Rep(cls, 0, Unbounded)
Opt(cls) == Rep(cls, 0, 1)
Alt(alts) == Item("alt", {}, 0, 0, TRUE, alts)
Ahead(alts) == Item("ahead", {}, 0, 0, TRUE, alts)
\* (?:p)* and \b
Many(p) == Item("many", {}, 0, 0, TRUE, <<p>>)
WordBoundary == Item("wb", WordChars, 0, 0, TRUE, <<>>)

NoMatch == [ok |-> FALSE, start |-> 0, end |-> 0, cs |-> 0, ce |-> 0]

\* The least element of S, `otherwise` for the empty set
MinOr(S, otherwise) == IF S = {} THEN otherwise ELSE SetMin(S)
\* n, limited to max
AtMost(n, max) == IF max # Unbounded /\ max < n THEN max ELSE n

\* The number of characters from pos on that lie in cls, at most max.
Run(text, pos, cls, max) ==
    AtMost(MinOr({i \in pos .. Len(text) : text[i] \notin cls}, Len(text) + 1) - pos, max)

\* The first of two attempts that matches
OrElse(m, other) == IF m.ok THEN m ELSE other

\* The match of `items` at pos that backtracking finds first: a greedy
\* repetition takes the longest run the rest of the pattern accepts, a lazy
\* one the shortest, an alternation its first alternative the rest accepts.
\* cs/ce are the bounds of group 1 (0: the group did not take part).
RECURSIVE MatchHere(_, _, _, _, _)
RECURSIVE TryRep(_, _, _, _, _, _, _, _)
RECURSIVE TryAlt(_, _, _, _, _, _)

\* A repetition that may take lo .. hi characters: the counts are tried from
\* hi down when greedy and from lo up when lazy, until the rest of the
\* pattern matches.  (The range is halved so that the evaluation nests
\* little.)
TryRep(rest, text, pos, cs, ce, lo, hi, greedy) ==
    CASE hi < lo -> NoMatch
      [] hi = lo -> MatchHere(rest, text, pos + lo, cs, ce)
      [] hi > lo /\ greedy ->
           OrElse(TryRep(rest, text, pos, cs, ce, (lo + hi) \div 2 + 1, hi, greedy),
                  TryRep(rest, text, pos, cs, ce, lo, (lo + hi) \div 2, greedy))
      [] hi > lo /\ ~greedy ->
           OrElse(TryRep(rest, text, pos, cs, ce, lo, (lo + hi) \div 2, greedy),
                  TryRep(rest, text, pos, cs, ce, (lo + hi) \div 2 + 1, hi, greedy))

\* The alternatives in the order written, until one matches with the rest.
TryAlt(alts, rest, text, pos, cs, ce) ==
    IF alts = <<>> THEN NoMatch
    ELSE OrElse(MatchHere(Head(alts) \o rest, text, pos, cs, ce),
                TryAlt(Tail(alts), rest, text, pos, cs, ce))

\* Whether the item, which takes no character, holds at pos.
Holds(it, text, pos) ==
    CASE it.t = "bol" -> pos = 1 \/ text[pos - 1] = "\n"
      [] it.t = "eol" -> pos = Len(text) + 1 \/ text[pos] = "\n"
      [] it.t = "nlb" -> pos = 1 \/ text[pos - 1] \notin it.cls
      [] it.t = "nla" -> pos = Len(text) + 1 \/ text[pos] \notin it.cls
      [] it.t = "wb" ->
           (pos > 1 /\ text[pos - 1] \in it.cls)
               # (pos <= Len(text) /\ text[pos] \in it.cls)
      [] it.t = "ahead" ->
           \E i \in 1 .. Len(it.alts) : MatchHere(it.alts[i], text, pos, 0, 0).ok
      [] it.t = "word" ->
           /\ pos + Len(it.alts) <= Len(text) + 1
           /\ \A i \in 1 .. Len(it.alts) : text[pos + i - 1] \in it.alts[i]

\* The kind of the first item, "end" for no item
Kind(items) == IF items = <<>> THEN "end" ELSE Head(items).t

MatchHere(items, text, pos, cs, ce) ==
    CASE Kind(items) = "end" ->
           [ok |-> TRUE, start |-> 0, end |-> pos, cs |-> cs, ce |-> ce]
      [] Kind(items) = "open" -> MatchHere(Tail(items), text, pos, pos, ce)
      [] Kind(items) = "close" -> MatchHere(Tail(items), text, pos, cs, pos)
      [] Kind(items) = "rep" /\ Head(items).min = Head(items).max
             /\ Run(text, pos, Head(items).cls, Head(items).max) = Head(items).max ->
           MatchHere(Tail(items), text, pos + Head(items).max, cs, ce)
      [] Kind(items) = "rep" /\ Head(items).min # Head(items).max ->
           TryRep(Tail(items), text, pos, cs, ce, Head(items).min,
                  Run(text, pos, Head(items).cls, Head(items).max), Head(items).greedy)
      [] Kind(items) = "alt" -> TryAlt(Head(items).alts, Tail(items), text, pos, cs, ce)
      [] Kind(items) = "many" ->
           TryAlt(<<Head(items).alts[1] \o <<Head(items)>>, <<>> >>, Tail(items),
                  text, pos, cs, ce)
      [] Kind(items) = "word" /\ Holds(Head(items), text, pos) ->
           MatchHere(Tail(items), text, pos + Len(Head(items).alts), cs, ce)
      [] Kind(items) \in {"bol", "eol", "nlb", "nla", "wb", "ahead"}
             /\ Holds(Head(items), text, pos) ->
           MatchHere(Tail(items), text, pos, cs, ce)
      [] OTHER -> NoMatch

\* re.search: the match at the leftmost position that has one.
MatchFrom(items, text, start) ==
    IF start = 0 THEN NoMatch
    ELSE [MatchHere(items, text, start, 0, 0) EXCEPT !.start = start]
Search(items, text) ==
    MatchFrom(items, text,
              MinOr({p \in 1 .. Len(text) + 1 : MatchHere(items, text, p, 0, 0).ok}, 0))

\* match.group(g) of a pattern with `groups` capture groups: IndexError for a
\* group the pattern does not have, None for a group that took no part.
GroupOutcome(m, text, g, groups) ==
    IF g < 0 \/ g > groups THEN [kind |-> "raise", val |-> None]
    ELSE IF g = 0 THEN [kind |-> "value", val |-> Some(SubSeq(text, m.start, m.end - 1))]
    ELSE IF m.cs = 0 \/ m.ce = 0 THEN [kind |-> "value", val |-> None]
    ELSE [kind |-> "value", val |-> Some(SubSeq(text, m.cs, m.ce - 1))]

\* ------------------------------------------------------------------------
\* Extraction rules
\* ------------------------------------------------------------------------
FieldTypes ==
    {"code_no", "pi_no", "invoice_date", "del_date", "customer_tel", "attended_by",
     "plate_number", "amount", "customer_phone", "customer_name", "address",
     "customer_email", "service_description", "quantity", "reference"}

Rule(name, field, regex, compiles, groups, group, priority, active) ==
    [name |-> name, field |-> field, regex |-> regex, compiles |-> compiles,
     groups |-> groups, group |-> group, priority |-> priority, active |-> active]

\* \s*   \s?   \s+   [:\-]?   [\s:]*
WS == Star(Whitespace)
OptWS == Opt(Whitespace)
WS1 == Rep(Whitespace, 1, Unbounded)
Sep == Opt({":", "-"})
ColonWS == Star(Whitespace \cup {":"})

\* (...) around a pattern, the one group of each rule
Group(p) == <<Open>> \o p \o <<Close>>

\* ([^\n]+?)
LineValue == Group(<<RepLazy(NotNewline, 1, Unbounded)>>)
\* ([A-Z0-9\-/]+)
CodeValue == Group(<<Rep(Alnum \cup {"-", "/"}, 1, Unbounded)>>)
\* (\d{1,2}[\/\-]\d{1,2}[\/\-]\d{2,4})
DateValue ==
    Group(<<Rep(Digits, 1, 2), Rep({"/", "-"}, 1, 1), Rep(Digits, 1, 2),
            Rep({"/", "-"}, 1, 1), Rep(Digits, 2, 4)>>)
\* \+?255\s?\d{3}\s?\d{3}\s?\d{3}
TelIntl ==
    <<Opt({"+"})>> \o Word("255")
        \o <<OptWS, Rep(Digits, 3, 3), OptWS, Rep(Digits, 3, 3), OptWS, Rep(Digits, 3, 3)>>
\* 0[67]\d{2}\s?\d{3}\s?\d{3}
TelLocal ==
    <<Lit("0"), Rep({"6", "7"}, 1, 1), Rep(Digits, 2, 2), OptWS, Rep(Digits, 3, 3),
      OptWS, Rep(Digits, 3, 3)>>
\* \+?\d{7,15}
TelAny == <<Opt({"+"}), Rep(Digits, 7, 15)>>
\* (?:Tel|Telephone|Phone)
TelLabel == Alt(<<Word("Tel"), Word("Telephone"), Word("Phone")>>)
\* [A-Z]{1,3}\s?\d{1,5}\s?[A-Z]{2,3}
PlateA == <<Rep(Letters, 1, 3), OptWS, Rep(Digits, 1, 5), OptWS, Rep(Letters, 2, 3)>>
\* [A-Z]{2,3}\s?[A-Z]?\s?\d+\s?[A-Z]{2,3}
PlateB ==
    <<Rep(Letters, 2, 3), OptWS, Opt(Letters), OptWS, Rep(Digits, 1, Unbounded),
      OptWS, Rep(Letters, 2, 3)>>
\* ([\d,]+\.?\d{0,2})
MoneyValue ==
    Group(<<Rep(Digits \cup {","}, 1, Unbounded), Opt({"."}), Rep(Digits, 0, 2)>>)
\* (?mi)^(?:\s*<first>\s*Value\s*[:\s]*)\s*([\d,]+\.?\d{0,2})\s*$
MoneyLine(first) ==
    <<Bol, WS>> \o Word(first) \o <<WS>> \o Word("Value") \o <<ColonWS, WS>>
        \o MoneyValue \o <<WS, Eol>>
\* ([A-Z0-9\s\-/]+?)
RefValue == Group(<<RepLazy(Alnum \cup Whitespace \cup {"-", "/"}, 1, Unbounded)>>)

DefaultNames ==
    {"Code No label", "PI No label", "Invoice number from header", "Date label",
     "Delivery Date label", "Tel label exact", "Tel label TZ formats",
     "Attended by label", "Plate in reference field", "Standard plate format",
     "Gross Value block", "Net Value block", "Phone label TZ formats",
     "General phone format", "Strict Customer Name label",
     "Fallback CUSTOMER NAME (caps)", "Address block", "Email pattern",
     "Service/description field", "Quantity field", "Reference labeled full",
     "Ref short"}

\* _default_patterns(): the built-in rule of each name.  (The source names
\* two rules 'Tel label TZ formats'; the customer_phone one is called
\* "Phone label TZ formats" here.)
DefaultRule(name) ==
    CASE name = "Code No label" ->
           \* (?mi)^\s*Code\s*No\.?\s*[:\-]?\s*([A-Z0-9\-/]+)\s*$
           Rule(name, "code_no",
                <<Bol, WS>> \o Word("Code") \o <<WS>> \o Word("No")
                    \o <<Opt({"."}), WS, Sep, WS>> \o CodeValue \o <<WS, Eol>>,
                TRUE, 1, 1, 5, TRUE)
      [] name = "PI No label" ->
           \* (?mi)^\s*(?:PI\s*No\.?|P\.I\.\s*No\.?|Proforma\s*(?:Invoice\s*)?No\.?)
           \*     \s*[:\-]?\s*([A-Z0-9\-/]+)\s*$
           Rule(name, "pi_no",
                <<Bol, WS,
                  Alt(<<Word("PI") \o <<WS>> \o Word("No") \o <<Opt({"."})>>,
                        Word("P.I.") \o <<WS>> \o Word("No") \o <<Opt({"."})>>,
                        Word("Proforma")
                            \o <<WS, Alt(<<Word("Invoice") \o <<WS>>, <<>> >>)>>
                            \o Word("No") \o <<Opt({"."})>> >>),
                  WS, Sep, WS>> \o CodeValue \o <<WS, Eol>>,
                TRUE, 1, 1, 5, TRUE)
      [] name = "Invoice number from header" ->
           \* (?:Proforma\s+Invoice|Invoice)\s*(?:No\.?|#)\s*[:\-]?\s*([A-Z0-9\-/]+)
           Rule(name, "pi_no",
                <<Alt(<<Word("Proforma") \o <<WS1>> \o Word("Invoice"), Word("Invoice")>>),
                  WS, Alt(<<Word("No") \o <<Opt({"."})>>, Word("#")>>), WS, Sep, WS>>
                    \o CodeValue,
                TRUE, 1, 1, 10, TRUE)
      [] name = "Date label" ->
           \* (?mi)^\s*Date\s*[:\-]?\s*(\d{1,2}[\/\-]\d{1,2}[\/\-]\d{2,4})\s*$
           Rule(name, "invoice_date",
                <<Bol, WS>> \o Word("Date") \o <<WS, Sep, WS>> \o DateValue
                    \o <<WS, Eol>>,
                TRUE, 1, 1, 5, TRUE)
      [] name = "Delivery Date label" ->
           \* (?mi)^\s*Del\.?\s*Date\s*[:\-]?\s*(\d{1,2}[\/\-]\d{1,2}[\/\-]\d{2,4})\s*$
           Rule(name, "del_date",
                <<Bol, WS>> \o Word("Del") \o <<Opt({"."}), WS>> \o Word("Date")
                    \o <<WS, Sep, WS>> \o DateValue \o <<WS, Eol>>,
                TRUE, 1, 1, 5, TRUE)
      [] name = "Tel label exact" ->
           \* (?mi)^\s*Tel\s*[:\-]?\s*(<intl>|<local>|\+?\d{7,15})\s*$
           Rule(name, "customer_tel",
                <<Bol, WS>> \o Word("Tel") \o <<WS, Sep, WS>>
                    \o Group(<<Alt(<<TelIntl, TelLocal, TelAny>>)>>) \o <<WS, Eol>>,
                TRUE, 1, 1, 5, TRUE)
      [] name = "Tel label TZ formats" ->
           \* (?:Tel|Telephone|Phone)[\s:]*(<intl>|<local>|\+?\d{7,15})
           Rule(name, "customer_tel",
                <<TelLabel, ColonWS>> \o Group(<<Alt(<<TelIntl, TelLocal, TelAny>>)>>),
                TRUE, 1, 1, 10, TRUE)
      [] name = "Attended by label" ->
           \* (?mi)^\s*Attended\s*(?:by|By)\s*[:\-]?\s*([^\n]+?)\s*$
           Rule(name, "attended_by",
                <<Bol, WS>> \o Word("Attended") \o <<WS, Alt(<<Word("by"), Word("By")>>),
                                                     WS, Sep, WS>>
                    \o LineValue \o <<WS, Eol>>,
                TRUE, 1, 1, 5, TRUE)
      [] name = "Plate in reference field" ->
           \* (?:REFERENCE|REF|Reference|Ref|Plate|License)[\s:]*(<A>|<B>)
           Rule(name, "plate_number",
                <<Alt(<<Word("REFERENCE"), Word("REF"), Word("Reference"), Word("Ref"),
                        Word("Plate"), Word("License")>>), ColonWS>>
                    \o Group(<<Alt(<<PlateA, PlateB>>)>>),
                TRUE, 1, 1, 10, TRUE)
      [] name = "Standard plate format" ->
           \* (?<![A-Z0-9])([A-Z]{1,3}\s?\d{1,5}\s?[A-Z]{0,3})(?![A-Z0-9])
           Rule(name, "plate_number",
                <<NotBehind(Alnum)>>
                    \o Group(<<Rep(Letters, 1, 3), OptWS, Rep(Digits, 1, 5), OptWS,
                               Rep(Letters, 0, 3)>>)
                    \o <<NotAhead(Alnum)>>,
                TRUE, 1, 1, 20, TRUE)
      [] name = "Gross Value block" ->
           Rule(name, "amount", MoneyLine("Gross"), TRUE, 1, 1, 5, TRUE)
      [] name = "Net Value block" ->
           Rule(name, "amount", MoneyLine("Net"), TRUE, 1, 1, 10, TRUE)
      [] name = "Phone label TZ formats" ->
           \* (?mi)^\s*(?:Tel|Telephone|Phone)\s*[:\-]?\s*(<intl>|<local>)
           Rule(name, "customer_phone",
                <<Bol, WS, TelLabel, WS, Sep, WS>>
                    \o Group(<<Alt(<<TelIntl, TelLocal>>)>>),
                TRUE, 1, 1, 10, TRUE)
      [] name = "General phone format" ->
           \* (\+?\d{9,15})
           Rule(name, "customer_phone", Group(<<Opt({"+"}), Rep(Digits, 9, 15)>>),
                TRUE, 1, 1, 20, TRUE)
      [] name = "Strict Customer Name label" ->
           \* (?mi)^\s*Customer\s*Name\s*[:\-]?\s*([^\n]+?)\s*$
           Rule(name, "customer_name",
                <<Bol, WS>> \o Word("Customer") \o <<WS>> \o Word("Name")
                    \o <<WS, Sep, WS>> \o LineValue \o <<WS, Eol>>,
                TRUE, 1, 1, 1, TRUE)
      [] name = "Fallback CUSTOMER NAME (caps)" ->
           \* (?mi)^\s*CUSTOMER\s*NAME\s*[:\-]?\s*([^\n]+?)\s*$
           Rule(name, "customer_name",
                <<Bol, WS>> \o Word("CUSTOMER") \o <<WS>> \o Word("NAME")
                    \o <<WS, Sep, WS>> \o LineValue \o <<WS, Eol>>,
                TRUE, 1, 1, 5, TRUE)
      [] name = "Address block" ->
           \* (?mis)\bAddress\b\s*[:\-]?\s*([^\n]+?(?:\n[^\n]+)*)?
           \*     (?=\n\s*(?:Tel|Telephone|Attended|Reference|PI\s*No\.|Code\s*No|Fax)\b)
           Rule(name, "address",
                <<WordBoundary>> \o Word("Address") \o <<WordBoundary, WS, Sep, WS,
                  Alt(<<Group(<<RepLazy(NotNewline, 1, Unbounded),
                                Many(<<Lit("\n"), Rep(NotNewline, 1, Unbounded)>>)>>),
                        <<>> >>),
                  Ahead(<< <<Lit("\n"), WS,
                             Alt(<<Word("Tel"), Word("Telephone"), Word("Attended"),
                                   Word("Reference"),
                                   Word("PI") \o <<WS>> \o Word("No."),
                                   Word("Code") \o <<WS>> \o Word("No"), Word("Fax")>>),
                             WordBoundary>> >>)>>,
                TRUE, 1, 1, 10, TRUE)
      [] name = "Email pattern" ->
           \* ([a-zA-Z0-9._%+-]+@[a-zA-Z0-9.-]+\.[a-zA-Z]{2,})
           Rule(name, "customer_email",
                Group(<<Rep(Alnum \cup {".", "_", "%", "+", "-"}, 1, Unbounded), Lit("@"),
                        Rep(Alnum \cup {".", "-"}, 1, Unbounded), Lit("."),
                        Rep(Letters, 2, Unbounded)>>),
                TRUE, 1, 1, 10, TRUE)
      [] name = "Service/description field" ->
           \* (?:SERVICE|Service|Description|Item|ITEM)[\s:]*
           \*     ([A-Za-z0-9\s,./\\-]+?)(?:\n|Qty|Quantity|QTY|$)
           Rule(name, "service_description",
                <<Alt(<<Word("SERVICE"), Word("Service"), Word("Description"),
                        Word("Item"), Word("ITEM")>>), ColonWS>>
                    \o Group(<<RepLazy(Alnum \cup Whitespace \cup {",", ".", "/", "\\", "-"},
                                       1, Unbounded)>>)
                    \o <<Alt(<<<<Lit("\n")>>, Word("Qty"), Word("Quantity"), Word("QTY"),
                               <<Eol>> >>)>>,
                TRUE, 1, 1, 10, TRUE)
      [] name = "Quantity field" ->
           \* (?:QTY|Quantity|Qty)[\s:]*(\d+)
           Rule(name, "quantity",
                <<Alt(<<Word("QTY"), Word("Quantity"), Word("Qty")>>), ColonWS>>
                    \o Group(<<Rep(Digits, 1, Unbounded)>>),
                TRUE, 1, 1, 10, TRUE)
      [] name = "Reference labeled full" ->
           \* (?mi)^\s*Reference\s*[:\-]?\s*([A-Z0-9\s\-/]+?)\s*$
           Rule(name, "reference",
                <<Bol, WS>> \o Word("Reference") \o <<WS, Sep, WS>> \o RefValue
                    \o <<WS, Eol>>,
                TRUE, 1, 1, 1, TRUE)
      [] name = "Ref short" ->
           \* (?mi)^\s*Ref\s*(?:No\.|:)?\s*([A-Z0-9\s\-/]+?)\s*$
           Rule(name, "reference",
                <<Bol, WS>> \o Word("Ref")
                    \o <<WS, Alt(<<Word("No."), Word(":"), <<>> >>), WS>> \o RefValue
                    \o <<WS, Eol>>,
                TRUE, 1, 1, 5, TRUE)

\* _default_patterns(): field type -> rule names, in the order of the source.
DefaultPatterns(field) ==
    CASE field = "code_no" -> <<"Code No label">>
      [] field = "pi_no" -> <<"PI No label", "Invoice number from header">>
      [] field = "invoice_date" -> <<"Date label">>
      [] field = "del_date" -> <<"Delivery Date label">>
      [] field = "customer_tel" -> <<"Tel label exact", "Tel label TZ formats">>
      [] field = "attended_by" -> <<"Attended by label">>
      [] field = "plate_number" ->
           <<"Plate in reference field", "Standard plate format">>
      [] field = "amount" -> <<"Gross Value block", "Net Value block">>
      [] field = "customer_phone" ->
           <<"Phone label TZ formats", "General phone format">>
      [] field = "customer_name" ->
           <<"Strict Customer Name label", "Fallback CUSTOMER NAME (caps)">>
      [] field = "address" -> <<"Address block">>
      [] field = "customer_email" -> <<"Email pattern">>
      [] field = "service_description" -> <<"Service/description field">>
      [] field = "quantity" -> <<"Quantity field">>
      [] field = "reference" -> <<"Reference labeled full", "Ref short">>
      [] OTHER -> <<>>

\* Rows the configuration store may hold (InvoicePatternMatcher): name,
\* field_type, regex_pattern, extract_group, priority, is_active.
\*   db_label    Customer Name[\s:]*([^\n]*)
\*   db_digits   (\d+)
\*   db_line     ^([^\n]+)$
\*   db_broken   (                               does not compile
\*   db_nogroup  Customer Name\s*:               extract_group 1, no group
\*   db_optional Customer Name(:)?
\*   db_off      (\d+)                           is_active = False
\*   db_att      Attended by\s*:\s*(\d+)
\*   db_plate    Plate[\s:]*([^\n]+)             field type plate_number
StoreNames == {"db_label", "db_digits", "db_line", "db_broken", "db_nogroup",
               "db_optional", "db_off", "db_att", "db_plate"}
StoreRule(name) ==
    CASE name = "db_label" ->
           Rule(name, "customer_name",
                Word("Customer Name") \o <<ColonWS>> \o Group(<<Star(NotNewline)>>),
                TRUE, 1, 1, 10, TRUE)
      [] name = "db_digits" ->
           Rule(name, "customer_name", Group(<<Rep(Digits, 1, Unbounded)>>),
                TRUE, 1, 1, 20, TRUE)
      [] name = "db_line" ->
           Rule(name, "customer_name",
                <<Bol>> \o Group(<<Rep(NotNewline, 1, Unbounded)>>) \o <<Eol>>,
                TRUE, 1, 1, 30, TRUE)
      [] name = "db_broken" ->
           Rule(name, "customer_name", <<>>, FALSE, 0, 1, 5, TRUE)
      [] name = "db_nogroup" ->
           Rule(name, "customer_name", Word("Customer Name") \o <<WS, Lit(":")>>,
                TRUE, 0, 1, 15, TRUE)
      [] name = "db_optional" ->
           Rule(name, "customer_name",
                Word("Customer Name") \o <<Alt(<<Group(<<Lit(":")>>), <<>> >>)>>,
                TRUE, 1, 1, 10, TRUE)
      [] name = "db_off" ->
           Rule(name, "customer_name", Group(<<Rep(Digits, 1, Unbounded)>>),
                TRUE, 1, 1, 1, FALSE)
      [] name = "db_plate" ->
           Rule(name, "plate_number",
                Word("Plate") \o <<ColonWS>> \o Group(<<Rep(NotNewline, 1, Unbounded)>>),
                TRUE, 1, 1, 10, TRUE)
      [] name = "db_att" ->
           Rule(name, "attended_by",
                Word("Attended by") \o <<WS, Lit(":"), WS>>
                    \o Group(<<Rep(Digits, 1, Unbounded)>>),
                TRUE, 1, 1, 10, TRUE)

RuleTable ==
    [name \in DefaultNames |-> DefaultRule(name)] @@ [name \in StoreNames |-> StoreRule(name)]
RuleOf(name) == RuleTable[name]

\* One pass of the loop body of extract_field: re.search, then match.group.
\*   raise    re.error (the pattern does not compile) or IndexError
\*   nomatch  re.search returned None
\*   value    the group's value (None, "" or a str)
MatchOutcome(m, text, r) ==
    IF ~m.ok THEN [kind |-> "nomatch", val |-> None]
    ELSE GroupOutcome(m, text, r.group, r.groups)
RuleOutcome(name, text) ==
    IF ~RuleOf(name).compiles THEN [kind |-> "raise", val |-> None]
    ELSE MatchOutcome(Search(RuleOf(name).regex, text), text, RuleOf(name))

\* ------------------------------------------------------------------------
\* InvoiceExtractor
\* ------------------------------------------------------------------------
\* What the loop gives after a rule with outcome o: the truthy value of its
\* group, stripped; otherwise what follows an exception (on_raise) or the
\* rest of the loop (later).
AfterRule(o, on_raise, later) ==
    CASE o.kind = "value" /\ Truthy(o.val) ->
           [val |-> Some(Strip(o.val.v)), tried |-> 1, raised |-> FALSE]
      [] o.kind = "raise" -> [on_raise EXCEPT !.tried = @ + 1]
      [] OTHER -> [later EXCEPT !.tried = @ + 1]

\* The loop with the try/except around the whole loop instead of inside it:
\* the first rule that raises ends the extraction.
RECURSIVE ExtractLoopAbortOnRaise(_, _)
ExtractLoopAbortOnRaise(rules, text) ==
    IF rules = <<>>
    THEN [val |-> None, tried |-> 0, raised |-> FALSE]
    ELSE AfterRule(RuleOutcome(Head(rules), text),
                   [val |-> None, tried |-> 0, raised |-> TRUE],
                   ExtractLoopAbortOnRaise(Tail(rules), text))

\* The loop of extract_field over the rule list: the first rule whose group
\* value is truthy returns it stripped; a rule that raises is logged and the
\* loop goes on.  tried counts the rules the loop searched with; raised says
\* whether an exception left the function.
RECURSIVE ExtractLoop(_, _)
ExtractLoop(rules, text) ==
    IF rules = <<>>
    THEN [val |-> None, tried |-> 0, raised |-> FALSE]
    ELSE AfterRule(RuleOutcome(Head(rules), text),
                   ExtractLoop(Tail(rules), text),
                   ExtractLoop(Tail(rules), text))

\* The stored rules followed by the defaults.
RulesForMerged(patterns, field) == patterns[field] \o DefaultPatterns(field)

\* patterns = self.patterns.get(field_type); if not patterns: the defaults.
RulesFor(patterns, field) ==
    IF patterns[field] # <<>> THEN patterns[field] ELSE DefaultPatterns(field)

\* InvoiceExtractor.__init__
NewExtractor ==
    [patterns |-> [f \in FieldTypes |-> <<>>], service_templates |-> <<>>,
     loaded |-> FALSE]

\* ServiceTemplate rows of the configuration store, in the order the query
\* returns them: name, the comma-separated keywords column, the minutes.
StoreTemplates == <<"Oil Change", "Tyre Service">>
TemplateRow(name) ==
    CASE name = "Oil Change" ->
           [keywords |-> Chars("Oil, change"), estimated_minutes |-> 30]
      [] name = "Tyre Service" ->
           [keywords |-> Chars("tyre, ,oil"), estimated_minutes |-> 45]
      [] name = "Brake Check" ->
           [keywords |-> Chars("Brake"), estimated_minutes |-> 20]

\* [k.strip().lower() for k in (template.keywords or '').split(',') if k.strip()]
LowerStripped(kept) == [i \in 1 .. Len(kept) |-> Lower(Strip(kept[i]))]
Keywords(column) ==
    LowerStripped(SelectSeq(Split(column, ","), LAMBDA k : Strip(k) # <<>>))

IsSortedByPriority(rows) ==
    \A i, j \in 1 .. Len(rows) :
        i < j => StoreRule(rows[i]).priority <= StoreRule(rows[j]).priority

\* The query without order_by: the active rows in any order.
QueryPatternsUnordered(rows) ==
    LET active == {r \in rows : StoreRule(r).active}
        n == Cardinality(active)
    IN {q \in [1 .. n -> active] : \A i, j \in 1 .. n : i # j => q[i] # q[j]}

\* InvoicePatternMatcher.objects.filter(is_active=True).order_by('priority'):
\* the active rows by ascending priority; rows of one priority come in an
\* order the database chooses.
QueryPatterns(rows) ==
    LET active == {r \in rows : StoreRule(r).active}
        n == Cardinality(active)
    IN {q \in [1 .. n -> active] :
           /\ \A i, j \in 1 .. n : i # j => q[i] # q[j]
           /\ IsSortedByPriority(q)}

\* The for loop of _load_patterns_from_db: each row is appended to the list
\* of its field type.
RECURSIVE AppendRows(_, _)
AppendRows(patterns, rows) ==
    IF rows = <<>>
    THEN patterns
    ELSE LET f == StoreRule(Head(rows)).field
         IN AppendRows([patterns EXCEPT ![f] = Append(@, Head(rows))], Tail(rows))

\* What the store does during one load.
LoadFaults == {"none", "patterns_query", "templates_query"}

\* _load_patterns_from_db on extractor e, given the rows the store returns and
\* the store's fault: a failure is logged and the extractor is marked loaded.
LoadPatternsFromDb(e, rows, fault) ==
    IF e.loaded THEN e
    ELSE IF fault = "patterns_query" THEN [e EXCEPT !.loaded = TRUE]
    ELSE IF fault = "templates_query"
         THEN [e EXCEPT !.patterns = AppendRows(e.patterns, rows), !.loaded = TRUE]
    ELSE [e EXCEPT !.patterns = AppendRows(e.patterns, rows),
                   !.service_templates = StoreTemplates, !.loaded = TRUE]

\* extract_field on a loaded extractor.
ExtractField(e, text, field) == ExtractLoop(RulesFor(e.patterns, field), text)

\* ------------------------------------------------------------------------
\* Records: Python dicts and their values
\* ------------------------------------------------------------------------
\* A value carries its Python type.  Absent marks a key a dict does not hold.
Absent == [ty |-> "absent", v |-> <<>>]
PyNone == [ty |-> "none", v |-> <<>>]
PyStr(s) == [ty |-> "str", v |-> s]
PyInt(n) == [ty |-> "int", v |-> n]
PyList(l) == [ty |-> "list", v |-> l]
PyDict(d) == [ty |-> "dict", v |-> d]
\* A Decimal, held as the text str() gives for it.
PyDec(s) == [ty |-> "dec", v |-> s]

\* bool(x)
PyTruthy(x) ==
    CASE x.ty \in {"absent", "none"} -> FALSE
      [] x.ty = "str" -> Len(x.v) > 0
      [] x.ty = "int" -> x.v # 0
      [] x.ty = "list" -> Len(x.v) > 0
      [] x.ty = "dec" -> \E i \in 1 .. Len(x.v) : x.v[i] \in Digits \ {"0"}
      [] x.ty = "dict" -> \E k \in DOMAIN x.v : x.v[k].ty # "absent"

\* a or b
PyOr(a, b) == IF PyTruthy(a) THEN a ELSE b

\* The keys of the records the extraction builds and merges.
Keys ==
    {"plate_number", "customer_name", "customer_phone", "customer_email",
     "customer_tel", "address", "service_description", "item_name", "quantity",
     "amount", "reference", "code_no", "customer_code", "pi_no", "invoice_date",
     "del_date", "attended_by", "matched_service", "estimated_minutes", "items",
     "raw_text", "vat_amount", "net_value", "gross_value", "error",
     "vehicle_plates", "description"}

\* A dict literal: the table of its keys, every value evaluated once.
Dict(f) == f @@ <<>>
EmptyDict == Dict([k \in Keys |-> Absent])
\* d.get(k)
Get(d, k) == IF d[k].ty = "absent" THEN PyNone ELSE d[k]
\* d[k] = x
Put(d, k, x) == (k :> x) @@ d
\* d.pop(k, None)
Pop(d, k) == (k :> Absent) @@ d
Present(d) == {k \in DOMAIN d : d[k].ty # "absent"}

\* Decimal(s): the syntax of a plain decimal number (the texts of the model
\* hold no exponent and no special value).
Unsigned(t) == IF t # <<>> /\ Head(t) \in {"+", "-"} THEN Tail(t) ELSE t
IsUnsignedLiteral(body) ==
    /\ body # <<>>
    /\ \A i \in 1 .. Len(body) : body[i] \in Digits \cup {"."}
    /\ \E i \in 1 .. Len(body) : body[i] \in Digits
    /\ Cardinality({i \in 1 .. Len(body) : body[i] = "."}) <= 1
IsDecimalLiteral(s) == IsUnsignedLiteral(Unsigned(Strip(s)))

RECURSIVE DropLeadingZeros(_)
DropLeadingZeros(s) ==
    IF Len(s) > 1 /\ Head(s) = "0" THEN DropLeadingZeros(Tail(s)) ELSE s

\* str(Decimal(s)) for a literal s: no "+", no leading zeros, the fraction
\* digits as written, no bare "." at either end.
IntegerDigits(int) == IF int = <<>> THEN <<"0">> ELSE DropLeadingZeros(int)
FractionDigits(frac) == IF frac = <<>> THEN <<>> ELSE <<".">> \o frac
\* The digits of `body`, whose "." is at index dot (-1: it has none)
DigitsAround(body, dot) ==
    IF dot = 0 - 1 THEN IntegerDigits(body)
    ELSE IntegerDigits(SubSeq(body, 1, dot))
             \o FractionDigits(SubSeq(body, dot + 2, Len(body)))
SignedDigits(t) ==
    (IF t # <<>> /\ Head(t) = "-" THEN <<"-">> ELSE <<>>)
        \o DigitsAround(Unsigned(t), Find(Unsigned(t), <<".">>))
DecimalStr(s) == SignedDigits(Strip(s))

\* Decimal(s) without the try: InvalidOperation leaves the caller.
ToDecimalUncaught(s) ==
    IF IsDecimalLiteral(s) THEN PyDec(DecimalStr(s)) ELSE [ty |-> "raised", v |-> <<>>]

\* Decimal(s) inside try/except: the Decimal, or None when s is no number.
ToDecimal(s) == IF IsDecimalLiteral(s) THEN PyDec(DecimalStr(s)) ELSE PyNone

\* ------------------------------------------------------------------------
\* InvoiceExtractor.extract_all
\* ------------------------------------------------------------------------
\* extract_field as a Python value
PyOpt(o) == IF o.some THEN PyStr(o.v) ELSE PyNone
FieldValue(e, text, field) == PyOpt(ExtractField(e, text, field).val)

\* extract_amount: the amount field without anything but digits and ".",
\* as a Decimal.
AmountOf(amount_str) ==
    IF ~PyTruthy(amount_str) THEN PyNone
    ELSE ToDecimal(SelectSeq(amount_str.v, LAMBDA c : c \in Digits \cup {"."}))
ExtractAmount(e, text) == AmountOf(FieldValue(e, text, "amount"))

\* sum(1 for kw in template['keywords'] if kw in description_lower)
CountIn(kws, description_lower) ==
    Cardinality({i \in 1 .. Len(kws) : Contains(description_lower, kws[i])})
MatchCount(name, description_lower) ==
    CountIn(Keywords(TemplateRow(name).keywords), description_lower)

\* The loop of match_service_template over the templates left, with the best
\* match so far ("" is None) and its count.
RECURSIVE BestTemplate(_, _, _, _)
\* The comparison with >=: a later template of the same count wins.
BestAfterOrEqual(templates, description_lower, best, best_count, match_count) ==
    IF match_count >= best_count
    THEN BestTemplate(Tail(templates), description_lower, Head(templates), match_count)
    ELSE BestTemplate(Tail(templates), description_lower, best, best_count)

\* if match_count > best_match_count: the template is the best so far
BestAfter(templates, description_lower, best, best_count, match_count) ==
    IF match_count > best_count
    THEN BestTemplate(Tail(templates), description_lower, Head(templates), match_count)
    ELSE BestTemplate(Tail(templates), description_lower, best, best_count)
BestTemplate(templates, description_lower, best, best_count) ==
    IF templates = <<>> THEN best
    ELSE BestAfter(templates, description_lower, best, best_count,
                   MatchCount(Head(templates), description_lower))

\* match_service_template(description) for a str or None: the name of the
\* matched template, "" for None.
MatchServiceTemplate(e, description) ==
    IF ~PyTruthy(description) THEN ""
    ELSE BestTemplate(e.service_templates, Lower(description.v), "", 0)

\* matched_service and estimated_minutes of template `name` put into d
PutMatch(d, name) ==
    IF name = "" THEN d
    ELSE Put(Put(d, "matched_service", PyStr(Chars(name))),
             "estimated_minutes", PyInt(TemplateRow(name).estimated_minutes))

\* (?i)^customer\s*name\s*[:\-]?\s*$
NameLabelOnly ==
    Word("customer") \o <<WS>> \o Word("name") \o <<WS, Sep, WS, Eol>>
\* (?i)^(address|tel|telephone|fax|attended|kind\s*attn|ref|reference|pi\s*no\.|date)\b
OtherLabel ==
    <<Alt(<<Word("address"), Word("tel"), Word("telephone"), Word("fax"),
            Word("attended"), Word("kind") \o <<WS>> \o Word("attn"), Word("ref"),
            Word("reference"), Word("pi") \o <<WS>> \o Word("no."), Word("date")>>),
      WordBoundary>>
\* re.match(pattern, line)
Matches(items, line) == MatchHere(items, line, 1, 0, 0).ok

\* The first non-empty line after line i (while j < len(lines) and not
\* lines[j].strip()), 0 when there is none.
NextNonEmpty(lines, i) ==
    MinOr({j \in i + 1 .. Len(lines) : Strip(lines[j]) # <<>>}, 0)

\* The fallback for a value on the line after the label: the first
\* "Customer Name" line whose next non-empty line is not another label gives
\* that line.
\* [ln.strip() for ln in lines]
StripEach(lines) == [i \in 1 .. Len(lines) |-> Strip(lines[i])] \o <<>>
\* The line after the label on line i (0: there is no such label line)
LineAfter(lines, i) ==
    IF i = 0 THEN PyNone ELSE PyStr(Strip(lines[NextNonEmpty(lines, i)]))
NameBelowLabel(lines) ==
    LineAfter(lines,
              MinOr({i \in 1 .. Len(lines) :
                        /\ Matches(NameLabelOnly, lines[i])
                        /\ NextNonEmpty(lines, i) # 0
                        /\ ~Matches(OtherLabel, Strip(lines[NextNonEmpty(lines, i)]))},
                    0))
NextLineName(text) == NameBelowLabel(StripEach(Split(text, "\n")))

\* str(amount) if amount else None
AmountStr(amount) == IF PyTruthy(amount) THEN PyStr(amount.v) ELSE PyNone

\* The dict `extracted` as first written
Extracted(e, text) ==
    Dict([k \in Keys |->
        CASE k = "plate_number" -> FieldValue(e, text, "plate_number")
          [] k = "customer_name" -> FieldValue(e, text, "customer_name")
          [] k = "customer_phone" -> FieldValue(e, text, "customer_phone")
          [] k = "customer_email" -> FieldValue(e, text, "customer_email")
          [] k = "customer_tel" -> FieldValue(e, text, "customer_tel")
          [] k = "address" -> FieldValue(e, text, "address")
          [] k = "service_description" -> FieldValue(e, text, "service_description")
          [] k = "item_name" -> FieldValue(e, text, "service_description")
          [] k = "quantity" -> FieldValue(e, text, "quantity")
          [] k = "amount" -> AmountStr(ExtractAmount(e, text))
          [] k = "reference" -> FieldValue(e, text, "reference")
          [] k = "code_no" -> FieldValue(e, text, "code_no")
          [] k = "customer_code" -> FieldValue(e, text, "code_no")
          [] k = "pi_no" -> FieldValue(e, text, "pi_no")
          [] k = "invoice_date" -> FieldValue(e, text, "invoice_date")
          [] k = "del_date" -> FieldValue(e, text, "del_date")
          [] k = "attended_by" -> FieldValue(e, text, "attended_by")
          [] OTHER -> Absent])

\* d[k] = x unless x is None
PutUnlessNone(d, k, x) == IF x.ty = "none" THEN d ELSE Put(d, k, x)
\* if not extracted['customer_name']: the value on the line after the label
WithNextLineName(extracted, text) ==
    IF PyTruthy(extracted["customer_name"]) THEN extracted
    ELSE PutUnlessNone(extracted, "customer_name", NextLineName(text))
\* if extracted['service_description']: the matched template
WithTemplate(e, extracted) ==
    IF PyTruthy(extracted["service_description"])
    THEN PutMatch(extracted, MatchServiceTemplate(e, extracted["service_description"]))
    ELSE extracted
\* {k: v for k, v in extracted.items() if v is not None}
WithoutNone(extracted) ==
    Dict([k \in Keys |-> IF extracted[k].ty = "none" THEN Absent ELSE extracted[k]])

\* extract_all(text) on a loaded extractor
ExtractAll(e, text) ==
    WithoutNone(WithTemplate(e, WithNextLineName(Extracted(e, text), text)))

\* ------------------------------------------------------------------------
\* process_invoice_extraction
\* ------------------------------------------------------------------------
\* merged['raw_text'] = text[:10000] and extracted_data['raw_text'] = text[:5000]
MergedExcerptLen == 10000
FallbackExcerptLen == 5000

DigitSeq == <<"0", "1", "2", "3", "4", "5", "6", "7", "8", "9">>
\* str(n) for an int n >= 0
RECURSIVE IntStr(_)
IntStr(n) ==
    IF n < 10 THEN <<DigitSeq[n + 1]>>
    ELSE IntStr(n \div 10) \o <<DigitSeq[(n % 10) + 1]>>

\* s.endswith(suffix)
EndsWith(s, suffix) ==
    Len(s) >= Len(suffix) /\ SubSeq(s, Len(s) - Len(suffix) + 1, Len(s)) = suffix

\* ('.png', '.jpg', '.jpeg', '.gif', '.bmp')
ImageSuffixes ==
    {Chars(".png"), Chars(".jpg"), Chars(".jpeg"), Chars(".gif"), Chars(".bmp")}

\* {'error': message}
ErrorRecord(message) == Put(EmptyDict, "error", message)

\* The text under the "Proforma Invoice" heading, without "\r".
FromIndex(norm, idx) == IF idx # 0 - 1 THEN SubSeq(norm, idx + 1, Len(norm)) ELSE norm
FromHeading(norm) == FromIndex(norm, Find(Lower(norm), Chars("proforma invoice")))
NormalizeText(text) == IF text = <<>> THEN text ELSE FromHeading(RemoveSym(text, "\r"))

\* (?mi)^\s*Code\s*No\.?\s*[:\-]?\s*([A-Z0-9\-/]+)\s*$
CodeNoLine ==
    <<Bol, WS>> \o Word("Code") \o <<WS>> \o Word("No") \o <<Opt({"."}), WS, Sep, WS>>
        \o CodeValue \o <<WS, Eol>>
\* Reference\s*[:\-]?\s*([A-Z0-9\s-]{3,30})
ReferenceLoose ==
    Word("Reference") \o <<WS, Sep, WS>>
        \o Group(<<Rep(Alnum \cup Whitespace \cup {"-"}, 3, 30)>>)
\* ([A-Z]{1,3}\s?\d{3,5}\s?[A-Z]{0,3})
PlateInReference ==
    Group(<<Rep(Letters, 1, 3), OptWS, Rep(Digits, 3, 5), OptWS, Rep(Letters, 0, 3)>>)
\* (?mi)^\s*<label>\s*[:\s]*([\d,]+\.?\d{0,2})\s*$, the label as a pattern
TotalLine(label) == <<Bol, WS>> \o label \o <<ColonWS>> \o MoneyValue \o <<WS, Eol>>
VatLabel == Word("VAT")
NetValueLabel == Word("Net") \o <<WS>> \o Word("Value")
GrossValueLabel == Word("Gross") \o <<WS>> \o Word("Value")

\* group(1) of re.search(pattern, text), None when there is no match
GroupOf(m, text) ==
    IF m.ok /\ m.cs # 0 /\ m.ce # 0 THEN PyStr(SubSeq(text, m.cs, m.ce - 1)) ELSE PyNone
Group1(items, text) == GroupOf(Search(items, text), text)

\* list(dict.fromkeys(l)): the first occurrence of each element, in order
AppendNew(init, last) ==
    IF \E i \in 1 .. Len(init) : init[i] = last THEN init ELSE Append(init, last)
RECURSIVE Unique(_)
Unique(l) ==
    IF l = <<>> THEN l ELSE AppendNew(Unique(SubSeq(l, 1, Len(l) - 1)), l[Len(l)])

\* The merge with merged.update(doc_struct) in place of the loop: a value of
\* doc_struct replaces the header's
MergeStructOverwriting(fields, ds) ==
    Dict([k \in Keys |-> IF ds[k].ty # "absent" THEN ds[k] ELSE fields[k]])
\* for k, v in doc_struct.items(): a gap of the header record is filled, two
\* lists are combined
MergeStruct(fields, ds) ==
    Dict([k \in Keys |->
        IF ~PyTruthy(Get(fields, k)) /\ PyTruthy(Get(ds, k)) THEN ds[k]
        ELSE IF ds[k].ty = "list" /\ fields[k].ty = "list"
             THEN PyList(Unique(fields[k].v \o ds[k].v))
        ELSE fields[k]])
\* dict.fromkeys raises TypeError on an element that cannot be hashed
MergeRaises(fields, ds) ==
    \E k \in Keys :
        /\ ~(~PyTruthy(Get(fields, k)) /\ PyTruthy(Get(ds, k)))
        /\ ds[k].ty = "list" /\ fields[k].ty = "list"
        /\ \E i \in 1 .. Len(fields[k].v \o ds[k].v) :
               (fields[k].v \o ds[k].v)[i].ty \in {"list", "dict"}

\* The keys of an item of the decoder and of a normalised item.
ItemKeys ==
    {"code", "item_code", "description", "desc", "qty", "unit", "rate", "rate_tsh",
     "value", "amount", "value_tsh", "net_value", "vat", "gross_value"}
NormKeys ==
    {"line_no", "code", "description", "qty", "unit", "rate", "value", "net_value",
     "vat", "gross_value"}
EmptyItem == Dict([k \in ItemKeys |-> Absent])

\* _to_decimal(v)
ItemToDecimal(v) ==
    CASE v.ty \in {"none", "absent"} -> PyNone
      [] v.ty = "int" -> PyDec(IntStr(v.v))
      [] v.ty = "dec" -> v
      [] v.ty = "str" -> ToDecimal(Strip(RemoveSym(v.v, ",")))
      [] OTHER -> PyNone

\* (it.get('code') or it.get('item_code') or '') and the like
ItemCode(d) == PyOr(PyOr(Get(d, "code"), Get(d, "item_code")), PyStr(<<>>))
ItemDesc(d) == PyOr(PyOr(Get(d, "description"), Get(d, "desc")), PyStr(<<>>))

\* AttributeError in the loop body: the item has no .get, or its code or
\* description has no .strip
ItemRaises(it) ==
    \/ it.ty # "dict"
    \/ ItemCode(it.v).ty # "str"
    \/ ItemDesc(it.v).ty # "str"

\* The dict appended to normalized_items for the idx-th item, a dict d.
NormalizedItem(d, idx) ==
       PyDict(Dict([k \in NormKeys |->
           CASE k = "line_no" -> PyInt(idx)
             [] k = "code" -> PyOr(PyStr(Strip(ItemCode(d).v)), PyNone)
             [] k = "description" -> PyOr(PyStr(Strip(ItemDesc(d).v)), PyNone)
             [] k = "qty" -> ItemToDecimal(Get(d, "qty"))
             [] k = "unit" -> PyOr(Get(d, "unit"), PyNone)
             [] k = "rate" -> ItemToDecimal(PyOr(Get(d, "rate"), Get(d, "rate_tsh")))
             [] k = "value" ->
                  ItemToDecimal(PyOr(PyOr(Get(d, "value"), Get(d, "amount")),
                                     Get(d, "value_tsh")))
             [] k = "net_value" -> ItemToDecimal(Get(d, "net_value"))
             [] k = "vat" -> ItemToDecimal(Get(d, "vat"))
             [] k = "gross_value" -> ItemToDecimal(Get(d, "gross_value"))]))
NormalizeItem(it, idx) == NormalizedItem(IF ItemRaises(it) THEN EmptyItem ELSE it.v, idx)

\* _looks_like_noise(s) for a str s
LooksLikeNoise(s) ==
    \/ s = <<>>
    \/ Contains(Upper(Strip(s)), Chars("PROFORMA INVOICE"))
    \/ Contains(Upper(Strip(s)), Chars("CODE DESCRIPTION"))
    \/ Len(Strip(s)) < 3

\* merged[key] = m.group(1).strip() if m
PutStripped(d, key, g) == IF g.ty = "none" THEN d ELSE Put(d, key, PyStr(Strip(g.v)))
\* merged[key] = m.group(1).replace(',', '').strip() if m
PutCleaned(d, key, g) ==
    IF g.ty = "none" THEN d ELSE Put(d, key, PyStr(Strip(RemoveSym(g.v, ","))))
\* m = re.search(total pattern, text); if m: merged[key] = group(1) without ","
PutTotal(d, key, label, text) == PutCleaned(d, key, Group1(TotalLine(label), text))

\* The try block of the merge, step by step.  A step gives the record so far,
\* or tells that an exception left the block.
Raised == [raised |-> TRUE, rec |-> EmptyDict]
Merged(rec) == [raised |-> FALSE, rec |-> rec]

\* if not merged.get('code_no') and not merged.get('customer_code'): Code No
WithCustomerCode(merged, text) ==
    IF ~PyTruthy(Get(merged, "code_no")) /\ ~PyTruthy(Get(merged, "customer_code"))
    THEN PutStripped(merged, "customer_code", Group1(CodeNoLine, text))
    ELSE merged
\* if not merged.get('reference'): Reference
WithReference(merged, text) ==
    IF ~PyTruthy(Get(merged, "reference"))
    THEN PutStripped(merged, "reference", Group1(ReferenceLoose, text))
    ELSE merged
\* The reference as plate when it reads as one; re.search raises TypeError on
\* a reference that is no str.
WithPlateOfReference(merged) ==
    IF PyTruthy(Get(merged, "reference")) /\ ~PyTruthy(Get(merged, "plate_number"))
    THEN IF Get(merged, "reference").ty # "str" THEN Raised
         ELSE Merged(PutStripped(merged, "plate_number",
                                 Group1(PlateInReference, Get(merged, "reference").v)))
    ELSE Merged(merged)
\* doc_struct.get('vehicle_plates')[0]; TypeError on a value without indices
WithPlateOfStruct(m, ds) ==
    IF m.raised \/ PyTruthy(Get(m.rec, "plate_number"))
       \/ ~PyTruthy(Get(ds, "vehicle_plates"))
    THEN m
    ELSE CASE Get(ds, "vehicle_plates").ty = "list" ->
                Merged(Put(m.rec, "plate_number", Get(ds, "vehicle_plates").v[1]))
           [] Get(ds, "vehicle_plates").ty = "str" ->
                Merged(Put(m.rec, "plate_number",
                           PyStr(<<Get(ds, "vehicle_plates").v[1]>>)))
           [] OTHER -> Raised
\* items: those of the record, else those of doc_struct, else those
\* DocumentExtractor._extract_items finds in the text
ItemsOf(merged, ds, text_items) ==
    IF Get(merged, "items").ty = "list" THEN Get(merged, "items").v
    ELSE IF Get(ds, "items").ty = "list" THEN Get(ds, "items").v
    ELSE text_items
\* The loop with enumerate(items) in place of enumerate(items, start=1)
NormalizeItemsFromZero(items) ==
    [i \in 1 .. Len(items) |-> NormalizeItem(items[i], i - 1)] \o <<>>
\* for idx, it in enumerate(items, start=1): normalized_items
NormalizeItems(items) == [i \in 1 .. Len(items) |-> NormalizeItem(items[i], i)] \o <<>>
\* The loop over the items, and merged['items'] = normalized_items
PutItems(merged, items) ==
    IF \E i \in 1 .. Len(items) : ItemRaises(items[i]) THEN Raised
    ELSE IF Len(items) > 0 THEN Merged(Put(merged, "items", PyList(NormalizeItems(items))))
    ELSE Merged(merged)
WithItems(m, ds, text_items) ==
    IF m.raised THEN m ELSE PutItems(m.rec, ItemsOf(m.rec, ds, text_items))
\* normalized_items as the next step finds them
NormalizedItems(merged) ==
    IF Get(merged, "items").ty = "list" THEN Get(merged, "items").v ELSE <<>>
\* next((it.get('description') for it in normalized_items if ...), '')
FirstDescription(normalized_items) ==
    IF \A i \in 1 .. Len(normalized_items) : ~PyTruthy(normalized_items[i].v["description"])
    THEN PyStr(<<>>)
    ELSE normalized_items[SetMin({i \in 1 .. Len(normalized_items) :
                                     PyTruthy(normalized_items[i].v["description"])})]
             .v["description"]
PutDescription(merged, cand) ==
    IF PyTruthy(cand) THEN Put(Put(merged, "service_description", cand), "item_name", cand)
    ELSE merged
\* if _looks_like_noise(merged.get('service_description') or ''): the first
\* description of an item; AttributeError on a description that is no str
DescribedBy(merged, desc) ==
    IF desc.ty # "str" THEN Raised
    ELSE IF LooksLikeNoise(desc.v)
    THEN Merged(PutDescription(merged, FirstDescription(NormalizedItems(merged))))
    ELSE Merged(merged)
WithItemDescription(m) ==
    IF m.raised THEN m
    ELSE DescribedBy(m.rec, PyOr(Get(m.rec, "service_description"), PyStr(<<>>)))
WithTotals(m, text) ==
    IF m.raised THEN m
    ELSE Merged(PutTotal(PutTotal(PutTotal(m.rec, "vat_amount", VatLabel, text),
                                  "net_value", NetValueLabel, text),
                         "gross_value", GrossValueLabel, text))
\* match_service_template(service_desc); AttributeError on one that is no str
MatchedBy(e, merged, service_desc) ==
    IF ~PyTruthy(service_desc) THEN Merged(merged)
    ELSE IF service_desc.ty # "str" THEN Raised
    ELSE Merged(PutMatch(merged, MatchServiceTemplate(e, service_desc)))
WithMatchedService(e, m) ==
    IF m.raised THEN m
    ELSE MatchedBy(e, m.rec,
                   PyOr(PyOr(Get(m.rec, "service_description"), Get(m.rec, "item_name")),
                        Get(m.rec, "description")))

\* The steps after the merge of doc_struct, a dict ds, into the header record
EnrichWith(e, text, invoice_fields, ds, text_items) ==
    IF MergeRaises(invoice_fields, ds) THEN Raised
    ELSE WithMatchedService(e,
           WithTotals(
             WithItemDescription(
               WithItems(
                 WithPlateOfStruct(
                   WithPlateOfReference(
                     WithReference(
                       WithCustomerCode(
                         Put(MergeStruct(invoice_fields, ds), "raw_text",
                             PyStr(Take(text, MergedExcerptLen))),
                         text),
                       text)),
                   ds),
                 ds, text_items)),
             text))

\* The try block of the merge for a successful decoder result: whether an
\* exception left it, and the merged record when none did.
\* invoice_fields is extractor.extract_all(text), text_items what
\* DocumentExtractor._extract_items gives for the text.  doc_struct.items()
\* raises AttributeError when doc_struct is no dict.
MergeEnrich(e, text, invoice_fields, struct, text_items) ==
    IF PyOr(struct, PyDict(EmptyDict)).ty # "dict" THEN Raised
    ELSE EnrichWith(e, text, invoice_fields, PyOr(struct, PyDict(EmptyDict)).v, text_items)

\* extracted_data = extractor.extract_all(text); the excerpt of the text
TextOnlyRecord(invoice_fields, text) ==
    Put(invoice_fields, "raw_text", PyStr(Take(text, FallbackExcerptLen)))

\* What the call makes of the merge m: the merged record, or after an
\* exception `otherwise`.
MergedOr(m, otherwise) ==
    IF m.raised THEN [rec |-> otherwise, path |-> "merge_fallback"]
    ELSE [rec |-> m.rec, path |-> "merged"]

\* The merge with no except clause of its own: a failure goes to the outer
\* handler and becomes an error record.
MergeOrError(e, text, invoice_fields, struct, text_items) ==
    MergedOr(MergeEnrich(e, text, invoice_fields, struct, text_items),
             ErrorRecord(PyStr(Chars("merge error"))))

\* try: the merge; except Exception: the record of extract_all alone
MergeOrFallback(e, text, invoice_fields, struct, text_items) ==
    MergedOr(MergeEnrich(e, text, invoice_fields, struct, text_items),
             TextOnlyRecord(invoice_fields, text))

\* up = plate.upper().replace('.', ' ').strip() spells a postal box
SpellsBox(up) ==
    \/ Contains(up, Chars("BOX"))
    \/ Contains(up, Chars("P O BOX"))
    \/ Contains(up, Chars("P O  BOX"))
    \/ Contains(up, Chars("P.O"))
IsBoxPlate(plate) ==
    PyTruthy(plate) /\ plate.ty = "str"
        /\ SpellsBox(Strip(ReplaceSym(Upper(plate.v), ".", " ")))
\* Final cleanup: a plate that spells a postal box is dropped.
PlateCleanup(rec) ==
    IF IsBoxPlate(Get(rec, "plate_number")) THEN Pop(rec, "plate_number") ELSE rec

\* The decoder's failure reported in the call's own words.
ReadTextOwnMessage(scan) ==
    LET Error(path, message) == [path |-> path, error |-> message, text |-> <<>>]
    IN IF ~scan.name.some
       THEN Error("failed", PyStr(Chars("'NoneType' object has no attribute 'lower'")))
       ELSE IF \E suffix \in ImageSuffixes : EndsWith(Lower(scan.name.v), suffix)
       THEN Error("image",
                  PyStr(Chars("Image extraction disabled. Please upload a PDF or text-based document.")))
       ELSE IF scan.decoder_raises
       THEN IF ~scan.content.some
            THEN Error("unreadable", PyStr(Chars("Could not extract text from document")))
            ELSE [path |-> "text_only", error |-> Absent, text |-> scan.content.v]
       ELSE IF ~scan.result.success
       THEN Error("decoder_failed",
                  PyStr(Chars("Extraction failed")))
       ELSE [path |-> "merged", error |-> Absent, text |-> scan.result.raw_text]

\* The first part of process_invoice_extraction(document_scan): the text of
\* the file, or the error the call returns at once.  path names the way the
\* call goes on.
ReadText(scan) ==
    LET Error(path, message) == [path |-> path, error |-> message, text |-> <<>>]
    IN IF ~scan.name.some
       THEN Error("failed", PyStr(Chars("'NoneType' object has no attribute 'lower'")))
       ELSE IF \E suffix \in ImageSuffixes : EndsWith(Lower(scan.name.v), suffix)
       THEN Error("image",
                  PyStr(Chars("Image extraction disabled. Please upload a PDF or text-based document.")))
       ELSE IF scan.decoder_raises
       THEN IF ~scan.content.some
            THEN Error("unreadable", PyStr(Chars("Could not extract text from document")))
            ELSE [path |-> "text_only", error |-> Absent, text |-> scan.content.v]
       ELSE IF ~scan.result.success
       THEN Error("decoder_failed",
                  IF scan.result.error.ty = "absent" THEN PyStr(Chars("Extraction failed"))
                  ELSE scan.result.error)
       ELSE [path |-> "merged", error |-> Absent, text |-> scan.result.raw_text]

\* Whether the call gets as far as extract_all, and the text it is given
ReadsText(scan) == ReadText(scan).error.ty = "absent"
TextOf(scan) == NormalizeText(ReadText(scan).text)

\* The record m.rec after the final cleanup, with the path taken
Cleaned(m) == [ret |-> PlateCleanup(m.rec), path |-> m.path]

\* The rest of process_invoice_extraction(document_scan) for the call's
\* extractor e, text = TextOf(scan) and invoice_fields = e.extract_all(text):
\* the returned record and the path taken.
ProcessInvoiceExtraction(scan, e, text, invoice_fields) ==
    LET read == ReadText(scan)
    IN CASE read.error.ty # "absent" ->
              [ret |-> ErrorRecord(read.error), path |-> read.path]
         [] read.error.ty = "absent" /\ read.path = "text_only" ->
              [ret |-> PlateCleanup(TextOnlyRecord(invoice_fields, text)),
               path |-> "text_only"]
         [] read.error.ty = "absent" /\ read.path = "merged" ->
              Cleaned(MergeOrFallback(e, text, invoice_fields,
                                      scan.result.structured_data, scan.text_items))

\* ------------------------------------------------------------------------
\* State
\* ------------------------------------------------------------------------
VARIABLES
    store,       \* the InvoicePatternMatcher rows of the configuration store
    text,        \* the invoice text under extraction
    extractor,   \* the InvoiceExtractor the calls use
    loadRuns,    \* how often the body of _load_patterns_from_db ran
    fcall,       \* the last extract_field call: its field, rule list, result
    instance,    \* _extractor_instance: 0 is None, else an index of objs
    objs,        \* the InvoiceExtractor objects created by get_extractor
    threads,     \* per thread: its position, its extractor, rows left to append
    scan,        \* the document scan given to process_invoice_extraction
    fields,      \* what extract_all gave in the last call of process_invoice_extraction
    result,      \* what the last call of process_invoice_extraction returned
    calls,       \* the number of calls of process_invoice_extraction so far
    parsed,      \* what parse_invoice_data made of the text, <<>> before the call
    applied,     \* a function applied on its own: its name, argument and value
    invoiceRow,  \* the stored Invoice row the invoice views work on
    lineItems,   \* the ids of the stored InvoiceLineItem rows of that invoice
    orders,      \* the stored Order rows, in the order of their creation
    requests     \* the requests of the views: view, input, position, response

fieldVars == <<extractor, fcall>>
loadVars == <<instance, objs, threads>>
procVars == <<scan, fields, result, calls>>
parseVars == <<parsed, applied>>
viewVars == <<invoiceRow, lineItems, orders, requests>>
extractionVars == <<store, text, loadRuns, fieldVars, loadVars, procVars, parseVars>>
vars == <<store, text, loadRuns, fieldVars, loadVars, procVars, parseVars, viewVars>>

FieldIdle == extractor = [patterns |-> [f \in {} |-> <<>>], service_templates |-> <<>>,
                          loaded |-> FALSE]
             /\ fcall = [field |-> "", used |-> <<>>, val |-> [some |-> FALSE, v |-> <<>>],
                         tried |-> 0, raised |-> FALSE]
LoadIdle == instance = 0 /\ objs = <<>> /\ threads = <<>>
ProcIdle == scan = <<>> /\ fields = <<>> /\ result = <<>> /\ calls = 0
ParseIdle == parsed = <<>> /\ applied = <<>>
ViewIdle == invoiceRow = <<>> /\ lineItems = {} /\ orders = <<>> /\ requests = <<>>

\* ------------------------------------------------------------------------
\* Field extraction on one extractor
\* ------------------------------------------------------------------------
\* The pieces the texts of these runs are made of: the two labels, the
\* separators and a value character.
FieldPieces ==
    {Chars("Customer Name"), Chars("Attended by"), Chars(":"), Chars(" "), Chars("\n"),
     Chars("1")}

\* The concatenations of at most n pieces
RECURSIVE PiecesUpTo(_, _)
PiecesUpTo(A, n) ==
    IF n = 0 THEN {<<>>}
    ELSE LET S == PiecesUpTo(A, n - 1) IN S \cup {s \o a : s \in S, a \in A}

FieldTexts == PiecesUpTo(FieldPieces, MaxTextLen)
\* The contents of the configuration store the runs start from.
Stores ==
    {{}, {"db_label", "db_digits"}, {"db_broken", "db_nogroup", "db_line"},
     {"db_optional", "db_label"}, {"db_att", "db_off"}}

\* The store's faults these runs meet: the store answers, or is unreachable.
FieldFaults == {"none", "patterns_query"}

NoCall == [field |-> "", used |-> <<>>, val |-> None, tried |-> 0, raised |-> FALSE]

InitField ==
    /\ store \in Stores
    /\ text \in FieldTexts
    /\ extractor = NewExtractor
    /\ loadRuns = 0
    /\ fcall = NoCall
    /\ LoadIdle
    /\ ProcIdle
    /\ ParseIdle
    /\ ViewIdle

\* The record of a call: the field asked for, the rule list used, and what
\* the loop gave
CallOf(field, used, r) ==
    [field |-> field, used |-> used, val |-> r.val, tried |-> r.tried,
     raised |-> r.raised]

\* extract_field(text, field_type): the load on first use, then the loop.
ExtractFieldCall(field) ==
    \E rows \in IF extractor.loaded THEN {<<>>} ELSE QueryPatterns(store),
       fault \in IF extractor.loaded THEN {"none"} ELSE FieldFaults :
        /\ extractor' = LoadPatternsFromDb(extractor, rows, fault)
        /\ loadRuns' = IF extractor.loaded THEN loadRuns ELSE loadRuns + 1
        /\ fcall' = CallOf(field, RulesFor(extractor'.patterns, field),
                           ExtractField(extractor', text, field))
        /\ UNCHANGED <<viewVars, store, text, procVars, parseVars, loadVars>>

\* The field types these runs ask for.
FieldCallTypes == {"customer_name", "attended_by"}

NextField == \E field \in FieldCallTypes : ExtractFieldCall(field)

SpecField == InitField /\ [][NextField]_vars

\* ------------------------------------------------------------------------
\* Properties of extract_field
\* ------------------------------------------------------------------------

\* The active stored rows of a field type.
StoredOf(field) == {r \in store : StoreRule(r).active /\ StoreRule(r).field = field}

\* The positions of the used list whose rule gives a non-empty capture.
Hits(used) ==
    {i \in 1 .. Len(used) :
        LET o == RuleOutcome(used[i], text) IN o.kind = "value" /\ Truthy(o.val)}
Raises(used) == {i \in 1 .. Len(used) : RuleOutcome(used[i], text).kind = "raise"}
Capture(name) == RuleOutcome(name, text).val.v

\* C3: the rule list extract_field uses for a field type is exactly the rules
\* loaded from the store for that type, each once, when at least one was
\* loaded, and else exactly the built-in list: never stored and built-in
\* rules together.
C3_RuleListStoredOrDefault ==
    fcall.field # "" =>
        LET u == fcall.used
            mine == extractor.patterns[fcall.field]
        IN \/ /\ mine = <<>>
              /\ u = DefaultPatterns(fcall.field)
           \/ /\ mine # <<>>
              /\ u = mine
              /\ Range(u) = StoredOf(fcall.field)
              /\ Len(u) = Cardinality(StoredOf(fcall.field))
              /\ Range(u) \cap DefaultNames = {}

\* A call for a type the store has no rule for, on an extractor that holds
\* stored rules for another type.
C3_Witness ==
    /\ fcall.field = "attended_by"
    /\ fcall.used = DefaultPatterns("attended_by")
    /\ extractor.patterns["customer_name"] # <<>>
    /\ fcall.val.some

\* C4: extract_field returns the stripped capture of the first rule of the
\* list with a non-empty capture, that rule has the lowest priority number
\* among the rules with a non-empty capture, and no rule after it is tried;
\* with no such rule the result is None after every rule was tried.
C4_LowestPriorityCaptureWins ==
    fcall.field # "" =>
        LET u == fcall.used
            hits == Hits(u)
        IN IF hits = {}
           THEN fcall.val = None /\ fcall.tried = Len(u)
           ELSE LET i == SetMin(hits) IN
                /\ fcall.val = Some(Strip(Capture(u[i])))
                /\ fcall.tried = i
                /\ \A j \in hits : RuleOf(u[i]).priority <= RuleOf(u[j]).priority

\* Two rules capture different text and the lower priority number is returned.
C4_Witness ==
    /\ fcall.field # ""
    /\ \E i, j \in Hits(fcall.used) :
          /\ RuleOf(fcall.used[i]).priority < RuleOf(fcall.used[j]).priority
          /\ Strip(Capture(fcall.used[i])) # Strip(Capture(fcall.used[j]))
          /\ fcall.val = Some(Strip(Capture(fcall.used[i])))

\* C5: a value returned by extract_field is None or a str of length at least
\* one with no whitespace at either end.
C5_ValueStrippedNonEmpty ==
    fcall.val.some =>
        /\ fcall.val.v # <<>>
        /\ Head(fcall.val.v) \notin Whitespace
        /\ fcall.val.v[Len(fcall.val.v)] \notin Whitespace

\* C8: no exception leaves extract_field, and a rule that raises does not end
\* the extraction: the result is the value of the first rule with a non-empty
\* capture, also when rules before it raised, and None when there is none.
C8_RaisingRuleSkipped ==
    fcall.field # "" =>
        LET u == fcall.used
            hits == Hits(u)
        IN /\ ~fcall.raised
           /\ Raises(u) # {} =>
                IF hits = {}
                THEN fcall.val = None /\ fcall.tried = Len(u)
                ELSE fcall.val = Some(Strip(Capture(u[SetMin(hits)])))

\* A rule raised and a later rule's capture was returned.
C8_Witness ==
    /\ fcall.field # ""
    /\ \E i \in Raises(fcall.used), j \in Hits(fcall.used) :
          /\ i < j
          /\ j = SetMin(Hits(fcall.used))
          /\ fcall.val = Some(Strip(Capture(fcall.used[j])))
          /\ fcall.val.v # <<>>

\* The label of the built-in rules of a field type these runs ask for
LabelOfField(field) ==
    CASE field = "customer_name" -> Word("Customer") \o <<WS>> \o Word("Name")
      [] field = "attended_by" -> Word("Attended") \o <<WS>> \o Word("by")
\* The line holds the label (m its match) and, after the label, the value.
FollowsOn(line, m, value) ==
    m.ok /\ Contains(SubSeq(line, m.end, Len(line)), value)
\* The value stands after the label on one of the lines.
FollowsLabel(label, value, lines) ==
    \E i \in 1 .. Len(lines) : FollowsOn(lines[i], Search(label, lines[i]), value)

\* C13: the value a built-in label rule captures lies on the line of its
\* label, after the label: a label with nothing after it on its line never
\* binds to text of a following line.
C13_ValueOnLabelLine ==
    /\ fcall.field \in FieldCallTypes
    /\ fcall.used = DefaultPatterns(fcall.field)
    /\ fcall.val.some
    => FollowsLabel(LabelOfField(fcall.field), fcall.val.v, Split(text, "\n"))

\* ------------------------------------------------------------------------
\* First use of the shared extractor by several threads
\* ------------------------------------------------------------------------
\* get_extractor() followed by _load_patterns_from_db(), one statement a
\* step: neither function takes a lock, and the interpreter may switch
\* threads between any two statements (the store's queries block on I/O).
NThreads == 2
Threads == 1 .. NThreads

InitLoad ==
    /\ store \in Stores
    /\ text = <<>>
    /\ loadRuns = 0
    /\ FieldIdle
    /\ ProcIdle
    /\ ParseIdle
    /\ ViewIdle
    /\ instance = 0
    /\ objs = <<>>
    /\ threads = [t \in Threads |-> [pc |-> "start", self |-> 0, rows |-> <<>>]]

\* if _extractor_instance is None:
GetExtractorTest(t) ==
    /\ threads[t].pc = "start"
    /\ threads' = [threads EXCEPT ![t].pc = IF instance = 0 THEN "create" ELSE "return"]
    /\ UNCHANGED <<viewVars, store, text, procVars, parseVars, loadRuns, fieldVars, instance, objs>>

\* _extractor_instance = InvoiceExtractor()
GetExtractorCreate(t) ==
    /\ threads[t].pc = "create"
    /\ objs' = Append(objs, NewExtractor)
    /\ instance' = Len(objs) + 1
    /\ threads' = [threads EXCEPT ![t].pc = "return"]
    /\ UNCHANGED <<viewVars, store, text, procVars, parseVars, loadRuns, fieldVars>>

\* return _extractor_instance
GetExtractorReturn(t) ==
    /\ threads[t].pc = "return"
    /\ threads' = [threads EXCEPT ![t].pc = "test_loaded", ![t].self = instance]
    /\ UNCHANGED <<viewVars, store, text, procVars, parseVars, loadRuns, fieldVars, instance, objs>>

\* if self._patterns_loaded: return
LoadTest(t) ==
    /\ threads[t].pc = "test_loaded"
    /\ threads' = [threads EXCEPT
                      ![t].pc = IF objs[threads[t].self].loaded THEN "done" ELSE "query"]
    /\ UNCHANGED <<viewVars, store, text, procVars, parseVars, loadRuns, fieldVars, instance, objs>>

\* patterns = InvoicePatternMatcher.objects.filter(...).order_by('priority')
LoadQuery(t) ==
    /\ threads[t].pc = "query"
    /\ loadRuns' = loadRuns + 1
    /\ \E rows \in QueryPatterns(store), fault \in LoadFaults :
          threads' = [threads EXCEPT
                         ![t].pc = CASE fault = "patterns_query" -> "mark"
                                     [] fault = "templates_query" -> "append_t"
                                     [] OTHER -> "append",
                         ![t].rows = IF fault = "patterns_query" THEN <<>> ELSE rows]
    /\ UNCHANGED <<viewVars, store, text, procVars, parseVars, fieldVars, instance, objs>>

\* One pass of the for loop: self.patterns[field_type].append({...}); after
\* the last row the templates are queried, which may fail.
LoadAppend(t) ==
    /\ threads[t].pc \in {"append", "append_t"}
    /\ LET me == threads[t] IN
       IF me.rows = <<>>
       THEN /\ threads' = [threads EXCEPT
                              ![t].pc = IF me.pc = "append" THEN "templates" ELSE "mark"]
            /\ objs' = objs
       ELSE /\ objs' = [objs EXCEPT ![me.self].patterns =
                                       AppendRows(@, <<Head(me.rows)>>)]
            /\ threads' = [threads EXCEPT ![t].rows = Tail(@)]
    /\ UNCHANGED <<viewVars, store, text, procVars, parseVars, loadRuns, fieldVars, instance>>

\* for template in templates: self.service_templates[template.name] = {...}
LoadTemplates(t) ==
    /\ threads[t].pc = "templates"
    /\ objs' = [objs EXCEPT ![threads[t].self].service_templates = StoreTemplates]
    /\ threads' = [threads EXCEPT ![t].pc = "mark"]
    /\ UNCHANGED <<viewVars, store, text, procVars, parseVars, loadRuns, fieldVars, instance>>

\* self._patterns_loaded = True (at the end of the try block or in except)
LoadMark(t) ==
    /\ threads[t].pc = "mark"
    /\ objs' = [objs EXCEPT ![threads[t].self].loaded = TRUE]
    /\ threads' = [threads EXCEPT ![t].pc = "done"]
    /\ UNCHANGED <<viewVars, store, text, procVars, parseVars, loadRuns, fieldVars, instance>>

NextLoad ==
    \E t \in Threads :
        \/ GetExtractorTest(t)
        \/ GetExtractorCreate(t)
        \/ GetExtractorReturn(t)
        \/ LoadTest(t)
        \/ LoadQuery(t)
        \/ LoadAppend(t)
        \/ LoadTemplates(t)
        \/ LoadMark(t)

SpecLoad == InitLoad /\ [][NextLoad]_vars

NoRepeat(q) == \A i, j \in 1 .. Len(q) : i # j => q[i] # q[j]

\* C1: under concurrent first use the cache is populated at most once (the
\* body of the load runs for one caller only), so that no field type's rule
\* list of an extractor holds the same stored rule twice.
C1_CachePopulatedOnce ==
    \A i \in 1 .. Len(objs) : \A f \in FieldTypes : NoRepeat(objs[i].patterns[f])

\* ------------------------------------------------------------------------
\* Document processing
\* ------------------------------------------------------------------------
MaxCalls == 2

\* The texts the decoder recovers (or the file holds).
Docs ==
    <<<<>>,
      Chars("Customer Name: J Doe\nAttended by: "),
      Chars("P.O. Box 14"),
      Chars("Reference: T144 JB"),
      Chars("x\r\nProforma Invoice\r\nCode No: J-1"),
      Chars("Service: oil change\nQty: 2"),
      Chars("Gross Value: 1,500.00\nVAT: ,"),
      Chars("Customer Name:\nJ Doe\nTel: 0712 456 000"),
      Chars("Plate: P.O 4")>>

\* A dict with the one key k
Dict1(k, x) == PyDict(Put(EmptyDict, k, x))
\* An item dict of the decoder
ItemOf(description, qty, value) ==
    PyDict(Dict([k \in ItemKeys |->
                    CASE k = "description" -> description
                      [] k = "qty" -> qty
                      [] k = "value" -> value
                      [] OTHER -> Absent]))

\* The structured_data of the decoder's result: absent, None, mappings with
\* values of the kinds a decoder may put there, and a value that is no mapping.
Structs ==
    <<Absent,
      PyNone,
      Dict1("plate_number", PyStr(Chars("P.O 4"))),
      Dict1("plate_number", PyStr(Chars("Box 4"))),
      Dict1("vehicle_plates", PyList(<<PyStr(Chars("P.O. 45"))>>)),
      Dict1("vehicle_plates", PyInt(7)),
      Dict1("reference", PyStr(Chars("Box 144"))),
      Dict1("reference", PyInt(144)),
      Dict1("customer_name", PyStr(Chars("T Doe"))),
      Dict1("service_description", PyInt(5)),
      Dict1("items", PyList(<<PyInt(5)>>)),
      Dict1("items", PyList(<<ItemOf(PyInt(5), PyNone, PyNone)>>)),
      Dict1("items",
            PyList(<<ItemOf(PyStr(Chars("oil")), PyStr(Chars("2")),
                            PyStr(Chars("1,500.00"))),
                     ItemOf(PyNone, PyInt(1), PyStr(Chars("x")))>>)),
      PyList(<<PyStr(Chars("x"))>>),
      Dict1("items",
            PyList(<<ItemOf(PyStr(Chars("tyre")), PyInt(1), PyStr(Chars("900"))),
                     ItemOf(PyStr(Chars("oil")), PyInt(2), PyStr(Chars("300")))>>))>>

PdfName == Some(Chars("scan.PDF"))
\* File names that are no PDF's: no name at all, and image names.
OtherNames ==
    <<None, Some(Chars("scan.Png")), Some(Chars("scan.jpeg"))>>
\* The error of a decoder result that reports failure.
DecoderErrors == <<Absent, PyNone, PyStr(Chars("No text layer"))>>

NoDecoderResult ==
    [success |-> FALSE, raw_text |-> <<>>, structured_data |-> Absent, error |-> Absent]

Scan(name, decoder_raises, content, decoded, text_items) ==
    [name |-> name, decoder_raises |-> decoder_raises, content |-> content,
     result |-> decoded, text_items |-> text_items]

\* The document scans the calls are given, by kind:
\*   decoded   the decoder succeeds with text Docs[i] and structured_data
\*             Structs[j]
\*   items     the same with no structured_data, the decoder's _extract_items
\*             finding one item in the text
\*   failed    the decoder reports failure with error DecoderErrors[i]
\*   raised    the decoder raises; the file reads as Docs[i], or (i = 0) does
\*             not read
\*   named     a file with name OtherNames[i]
ScanIds ==
    ({"decoded"} \X (1 .. Len(Docs)) \X (1 .. Len(Structs)))
    \cup ({"items"} \X (1 .. Len(Docs)) \X {1})
    \cup ({"failed"} \X (1 .. Len(DecoderErrors)) \X {1})
    \cup ({"raised"} \X (0 .. Len(Docs)) \X {1})
    \cup ({"named"} \X (1 .. Len(OtherNames)) \X {1})

ScanOf(id) ==
    CASE id[1] = "decoded" ->
           Scan(PdfName, FALSE, None,
                [success |-> TRUE, raw_text |-> Docs[id[2]],
                 structured_data |-> Structs[id[3]], error |-> Absent], <<>>)
      [] id[1] = "items" ->
           Scan(PdfName, FALSE, None,
                [success |-> TRUE, raw_text |-> Docs[id[2]],
                 structured_data |-> Absent, error |-> Absent],
                <<ItemOf(PyStr(Chars("oil")), PyInt(2), PyNone)>>)
      [] id[1] = "failed" ->
           Scan(PdfName, FALSE, None,
                [success |-> FALSE, raw_text |-> <<>>, structured_data |-> Absent,
                 error |-> DecoderErrors[id[2]]], <<>>)
      [] id[1] = "raised" ->
           Scan(PdfName, TRUE, IF id[2] = 0 THEN None ELSE Some(Docs[id[2]]),
                NoDecoderResult, <<>>)
      [] id[1] = "named" ->
           Scan(OtherNames[id[2]], FALSE, None, NoDecoderResult, <<>>)

\* The stores the calls run against, with the scans run against each.
ProcInputs ==
    ({{}} \X ScanIds)
    \cup ({{"db_plate"}, {"db_label", "db_digits"}}
          \X {id \in ScanIds : id[1] = "raised" \/ (id[1] = "decoded" /\ id[3] = 1)})

NoResult == [ret |-> EmptyDict, path |-> ""]

InitProc ==
    /\ \E inp \in ProcInputs : store = inp[1] /\ scan = ScanOf(inp[2])
    /\ text = <<>>
    /\ loadRuns = 0
    /\ calls = 0
    /\ fields = EmptyDict
    /\ result = NoResult
    /\ FieldIdle
    /\ LoadIdle
    /\ ParseIdle
    /\ ViewIdle

\* One call of process_invoice_extraction(scan): a new InvoiceExtractor, whose
\* load runs at its first extract_all.
ProcessCall ==
    /\ calls < MaxCalls
    /\ \E rows \in QueryPatterns(store), fault \in LoadFaults :
           extractor' = IF ReadsText(scan)
                        THEN LoadPatternsFromDb(NewExtractor, rows, fault)
                        ELSE NewExtractor
    /\ text' = TextOf(scan)
    /\ fields' = IF ReadsText(scan) THEN ExtractAll(extractor', text') ELSE EmptyDict
    /\ result' = ProcessInvoiceExtraction(scan, extractor', text', fields')
    /\ loadRuns' = IF extractor'.loaded THEN loadRuns + 1 ELSE loadRuns
    /\ calls' = calls + 1
    /\ UNCHANGED <<viewVars, store, scan, fcall, loadVars, parseVars>>

NextProc == ProcessCall

SpecProc == InitProc /\ [][NextProc]_vars

\* The paths on which the call returns {'error': message}.
ErrorPaths == {"failed", "image", "unreadable", "decoder_failed"}
\* The paths on which the call returns a field record.
RecordPaths == {"text_only", "merged", "merge_fallback"}
Returned == calls > 0

\* C2: over any sequence of extraction calls of one process the load from the
\* configuration store is executed at most once, a failed load included.
C2_LoadAtMostOncePerProcess == loadRuns <= 1

\* A record none of whose present top-level keys holds None or ''.
NoEmptyValue(rec) ==
    \A k \in Keys : rec[k].ty # "none" /\ rec[k] # PyStr(<<>>)

\* C6: in the record extract_all returns and in the record
\* process_invoice_extraction returns, every present top-level key holds a
\* non-empty value: never None, never the empty string.
C6_PresentKeysNonEmpty ==
    Returned => NoEmptyValue(fields) /\ NoEmptyValue(result.ret)

\* The merge/enrichment steps of the last call failed.
MergeFailed ==
    /\ Returned
    /\ ReadText(scan).path = "merged"
    /\ ReadsText(scan)
    /\ MergeEnrich(extractor, text, fields, scan.result.structured_data,
                   scan.text_items).raised

\* C7: process_invoice_extraction lets no exception escape: it returns a
\* mapping with an 'error' key or a field record, and after a failure of the
\* merge/enrichment steps the field record is the header-only record of
\* extract_all (with the excerpt of the text, after the plate cleanup).
C7_NoEscapeFallbackToHeader ==
    Returned =>
        /\ result.path \in ErrorPaths \cup RecordPaths
        /\ result.path \in ErrorPaths =>
               "error" \in Present(result.ret)
               /\ \A k \in Keys \ {"error"} : k \notin Present(result.ret)
        /\ result.path \in RecordPaths => "error" \notin Present(result.ret)
        /\ MergeFailed <=> result.path = "merge_fallback"
        /\ MergeFailed =>
               /\ result.ret = PlateCleanup(TextOnlyRecord(fields, text))
               /\ \A k \in Keys \ {"raw_text", "plate_number"} :
                      result.ret[k] = fields[k]

\* A merge failed on a text with a header field, and the call returned.
C7_Witness ==
    /\ MergeFailed
    /\ result.path = "merge_fallback"
    /\ "customer_name" \in Present(fields)
    /\ result.ret["customer_name"] = fields["customer_name"]

\* The postal-box vocabulary in s, case and punctuation set aside.
BoxVocabulary(s) ==
    \/ Contains(Lower(s), Chars("box"))
    \/ Contains(Lower(s), Chars("p.o"))
    \/ Contains(ReplaceSym(Lower(s), ".", " "), Chars("p o"))

\* C10: in every non-error record process_invoice_extraction returns, on the
\* merged path and on both fallback paths, plate_number is absent or a string
\* without postal-box vocabulary.
C10_PlateFreeOfBoxVocabulary ==
    Returned /\ result.path \in RecordPaths =>
        LET plate == Get(result.ret, "plate_number")
        IN plate.ty = "str" => ~BoxVocabulary(plate.v)

\* doc_struct of the last call: structured_data, {} for None and for no value
DocStruct == PyOr(scan.result.structured_data, PyDict(EmptyDict)).v
\* The items of the last call in the order they were recovered: those of the
\* decoder's structured_data, else those found in the text
RecoveredItems == ItemsOf(MergeStruct(fields, DocStruct), DocStruct, scan.text_items)
\* The items list of the returned record
ReturnedItems == result.ret["items"].v

\* C12: in every returned record that has an items list, the i-th item of
\* the list is the i-th recovered item and its line_no is i: the numbers are
\* 1 .. n without gap or repeat, in the order of recovery.
C12_LineNoContiguousInOrder ==
    Returned /\ result.ret["items"].ty = "list" =>
        /\ result.path = "merged"
        /\ Len(ReturnedItems) = Len(RecoveredItems)
        /\ \A i \in 1 .. Len(ReturnedItems) :
               /\ ReturnedItems[i].ty = "dict"
               /\ ReturnedItems[i].v["line_no"] = PyInt(i)
               /\ ReturnedItems[i] = NormalizeItem(RecoveredItems[i], i)

\* A record with two items, the one of the larger value first.
C12_Witness ==
    /\ Returned
    /\ result.ret["items"].ty = "list"
    /\ Len(ReturnedItems) = 2
    /\ ReturnedItems[1].v["value"] = PyDec(Chars("900"))
    /\ ReturnedItems[2].v["value"] = PyDec(Chars("300"))
    /\ ReturnedItems[2].v["line_no"] = PyInt(2)

\* The last call reached the merge of structured_data into the header record
\* and the merge loop ended without an exception.
MergeStepDone ==
    /\ Returned
    /\ ReadsText(scan)
    /\ ReadText(scan).path = "merged"
    /\ PyOr(scan.result.structured_data, PyDict(EmptyDict)).ty = "dict"
    /\ ~MergeRaises(fields, DocStruct)
\* The record after the merge loop
AfterMerge == MergeStruct(fields, DocStruct)

\* Two values of a record that are the same value of the same type
SameValue(a, b) == a.ty = b.ty /\ a.v = b.v

\* C14: the merge of structured_data never replaces a non-empty value of the
\* header record: every key extract_all gave a non-empty value keeps it, and
\* a key whose value the merge changed was missing or empty in the header
\* record and now holds the value of structured_data.
C14_MergeKeepsHeaderValues ==
    MergeStepDone =>
        \A k \in Keys :
            /\ PyTruthy(fields[k]) => SameValue(AfterMerge[k], fields[k])
            /\ ~SameValue(AfterMerge[k], fields[k]) =>
                   ~PyTruthy(Get(fields, k)) /\ SameValue(AfterMerge[k], DocStruct[k])

\* The header record and structured_data give different customer names, and
\* the returned record holds the header's.
C14_Witness ==
    /\ MergeStepDone
    /\ result.path = "merged"
    /\ PyTruthy(fields["customer_name"])
    /\ PyTruthy(DocStruct["customer_name"])
    /\ ~SameValue(DocStruct["customer_name"], fields["customer_name"])
    /\ SameValue(result.ret["customer_name"], fields["customer_name"])

\* C15: merging a returned record with itself as the secondary source is a
\* no-op: the merge loop ends without an exception and every key, the
\* list-valued ones included, holds the value it held.
C15_SelfMergeIsNoOp ==
    Returned /\ result.path \in RecordPaths =>
        /\ ~MergeRaises(result.ret, result.ret)
        /\ \A k \in Keys : SameValue(MergeStruct(result.ret, result.ret)[k], result.ret[k])

\* ------------------------------------------------------------------------
\* parse_invoice_data: the customer's name and address
\* ------------------------------------------------------------------------
MaxPieces == 3
NameMaxLen == 80
AddressMinLen == 15

ValueChars == NotNewline \ {":", "{"}
Sign == Rep({":", "="}, 1, 1)
OptSign == Opt({":", "="})
Words(ws) == Alt([i \in 1 .. Len(ws) |-> Word(ws[i])] \o <<>>)

\* a or b, of two values that are a string or None
OptOr(a, b) == IF a.some THEN a ELSE b

\* The labels of a customer's name, in the order tried.
NameLabels ==
    <<Word("Customer") \o <<WS>> \o Word("Name"),
      Word("Bill") \o <<WS>> \o Word("To"),
      Word("Buyer") \o <<WS>> \o Word("Name"),
      Word("Client") \o <<WS>> \o Word("Name")>>

\* The words that end a value of strategy 1, and of strategy 2.
TrailingLabels ==
    <<"Tel", "Fax", "Del", "Ref", "Date", "Kind", "Attended", "Type", "Payment",
      "Delivery", "Reference", "PI", "Cust", "Qty", "Rate", "Value">>
TrailingKeywords == TrailingLabels \o <<"SR", "NO">>

\* re.sub(r'\s+(?:words)\b.*$', '', value, flags=re.I).strip(), m the match
CutAt(value, m) ==
    IF m.ok THEN Strip(SubSeq(value, 1, m.start - 1)) ELSE Strip(value)
CutTrailing(value, ws) ==
    CutAt(value, Search(<<WS1, Words(ws), WordBoundary>>, value))

\* group(1) of a match, stripped; '' when there is no match
StrippedOr(g) == IF g.ty = "none" THEN <<>> ELSE Strip(g.v)
Group1Stripped(items, s) == StrippedOr(Group1(items, s))

\* Strategy 1: "Label: Value" or "Label = Value"
SignValue(captured, value) ==
    IF captured # <<>> /\ value # <<>> THEN Some(value) ELSE None
SignValueOf(captured) == SignValue(captured, CutTrailing(captured, TrailingLabels))
LabelSignValue(label, search_text) ==
    SignValueOf(Group1Stripped(label \o <<WS, Sign, WS>>
                                   \o Group(<<Rep(ValueChars, 1, Unbounded)>>),
                               search_text))

\* Strategy 2: "Label Value".  The pattern is an f-string, in which {2,} is
\* the tuple (2,): the second alternative of the lookahead reads \s(2,)[A-Z].
SpaceValue(captured, value) ==
    IF captured # <<>> /\ Len(value) > 2 THEN Some(value) ELSE None
SpaceValueOf(captured) == SpaceValue(captured, CutTrailing(captured, TrailingKeywords))
LabelSpaceValue(label, search_text) ==
    SpaceValueOf(
        Group1Stripped(
            label \o <<WS1, NotAhead({":", "="})>>
                \o Group(<<Rep(Letters, 1, 1), RepLazy(ValueChars, 0, Unbounded)>>)
                \o <<Ahead(<<<<Lit("\n"), Rep(Letters, 1, 1)>>,
                             <<Rep(Whitespace, 1, 1), Lit("2"), Lit(","),
                               Rep(Letters, 1, 1)>>,
                             <<Lit("\n"), Eol>>,
                             <<Eol>>>>)>>,
            search_text))

\* ^[A-Z]+[a-zA-Z\s]*\s*[:=], matched with no flag: a line that starts a label
LabelStart ==
    <<Rep(UpperLetters, 1, Unbounded), Star(Letters \cup Whitespace), WS, Sign>>
\* ^(?:words)\b, in any case
StartsWithWord(ws) == <<Words(ws), WordBoundary>>

\* Strategy 3 on a line that holds the label: the value after the label
SameLineValue(value) ==
    IF value # <<>> /\ value \notin {Chars(":"), Chars("=")}
       /\ ~Matches(StartsWithWord(<<"Tel", "Fax", "Del", "Ref", "Date">>), value)
    THEN Some(value) ELSE None
ValueOnLine(label, line) ==
    SameLineValue(Group1Stripped(label \o <<WS, OptSign, WS>>
                                     \o Group(<<Rep(NotNewline, 1, Unbounded)>>)
                                     \o <<Eol>>,
                                 line))

\* Strategy 3 below the i-th line: the j-th line below it and those after it,
\* three at most, up to the next label
RECURSIVE ValueBelow(_, _, _)
ValueBelowAt(lines, i, j, next_line) ==
    IF next_line # <<>> /\ ~Matches(LabelStart, next_line)
    THEN IF Len(next_line) > 2
            /\ ~Matches(StartsWithWord(<<"Tel", "Fax", "Del", "Ref", "Date", "SR", "NO",
                                         "Code", "Customer", "Address">>),
                        next_line)
         THEN Some(next_line)
         ELSE ValueBelow(lines, i, j + 1)
    ELSE IF Matches(LabelStart, next_line) THEN None
    ELSE ValueBelow(lines, i, j + 1)
ValueBelow(lines, i, j) ==
    IF j > 3 \/ i + j > Len(lines) THEN None
    ELSE ValueBelowAt(lines, i, j, Strip(lines[i + j]))

\* Strategy 3: the lines that hold the label, in order
RECURSIVE LabelThenValueFrom(_, _, _)
ValueAtLine(label, lines, i) ==
    IF ~Search(label, lines[i]).ok THEN None
    ELSE OptOr(ValueOnLine(label, lines[i]), ValueBelow(lines, i, 1))
LabelThenValueFrom(label, lines, i) ==
    IF i > Len(lines) THEN None
    ELSE OptOr(ValueAtLine(label, lines, i), LabelThenValueFrom(label, lines, i + 1))
LabelThenValue(label, search_text) ==
    LabelThenValueFrom(label, Split(search_text, "\n"), 1)

\* The three strategies for one label
ValueOfLabel(label, search_text) ==
    OptOr(LabelSignValue(label, search_text),
          OptOr(LabelSpaceValue(label, search_text),
                LabelThenValue(label, search_text)))

\* extract_field_value(label_patterns) on normalized_text
RECURSIVE ExtractFieldValue(_, _)
ExtractFieldValue(labels, search_text) ==
    IF labels = <<>> THEN None
    ELSE OptOr(ValueOfLabel(Head(labels), search_text),
               ExtractFieldValue(Tail(labels), search_text))

\* any(kw in text.lower() for kw in keywords)
HasKeyword(s, keywords) == \E kw \in keywords : Contains(Lower(s), Chars(kw))

AddressKeywords ==
    {"street", "avenue", "road", "box", "p.o", "po", "floor", "apt", "suite",
     "district", "region", "country"}
AddressIndicators ==
    {"street", "avenue", "road", "box", "p.o", "po", "floor", "apt", "suite",
     "district", "region", "city", "country", "zip", "postal", "dar", "dar-es",
     "tanzania", "nairobi", "kenya"}

\* is_likely_customer_name(text) and is_likely_address(text), for a str or None
IsLikelyCustomerName(o) ==
    /\ Truthy(o)
    /\ Len(o.v) < NameMaxLen
    /\ ~HasKeyword(o.v, AddressKeywords)
    /\ o.v[1] \in UpperLetters
IsLikelyAddress(o) ==
    /\ Truthy(o)
    /\ \/ HasKeyword(o.v, AddressIndicators)
       \/ (\E i \in 1 .. Len(o.v) : o.v[i] \in Digits) /\ Len(o.v) > AddressMinLen

\* A name that reads as an address and not as a name
AddressNotName(o) == Truthy(o) /\ IsLikelyAddress(o) /\ ~IsLikelyCustomerName(o)

\* cleaned_lines: the stripped lines of the text that are not empty
CleanedLines(normalized_text) ==
    SelectSeq(StripEach(Split(normalized_text, "\n")), LAMBDA l : l # <<>>)

\* str.isupper()
IsUpper(s) ==
    /\ \E i \in 1 .. Len(s) : s[i] \in Letters
    /\ \A i \in 1 .. Len(s) : s[i] \notin LowerLetters

\* ' '.join(parts)
RECURSIVE Join(_)
Join(parts) ==
    IF parts = <<>> THEN <<>>
    ELSE IF Len(parts) = 1 THEN parts[1]
    ELSE parts[1] \o <<" ">> \o Join(Tail(parts))

\* A line below an "Address" line that ends the address: a label or a section
EndsAddress(next_line) ==
    \/ Matches(LabelStart, next_line)
    \/ Matches(<<Words(<<"Tel", "Fax", "Del", "Kind", "Attended", "Reference">>)>>,
               next_line)
    \/ IsUpper(next_line) /\ Contains(next_line, Chars(":"))

\* The lines below the i-th cleaned line that continue its address, from the
\* j-th one, three at most
RECURSIVE AddressBelow(_, _, _)
AddressBelow(cleaned_lines, i, j) ==
    IF j > 3 \/ i + j > Len(cleaned_lines) THEN <<>>
    ELSE IF EndsAddress(cleaned_lines[i + j]) THEN <<>>
    ELSE <<cleaned_lines[i + j]>> \o AddressBelow(cleaned_lines, i, j + 1)

\* What follows the label on an "Address" line
AddressOnLine(g) == IF g.ty = "none" THEN <<>> ELSE <<Strip(g.v)>>

\* The address made at the i-th cleaned line, an "Address" line
AddressAt(cleaned_lines, i) ==
    Join(AddressOnLine(Group1(Word("Address") \o <<WS, OptSign, WS>>
                                  \o Group(<<Rep(NotNewline, 1, Unbounded)>>)
                                  \o <<Eol>>,
                              cleaned_lines[i]))
             \o AddressBelow(cleaned_lines, i, 1))

\* The loop over cleaned_lines from the i-th line: the first "Address" line
\* that gives an address ends it; `address` is the value so far.
RECURSIVE AddressFrom(_, _, _)
AddressOr(cleaned_lines, i, address) ==
    IF address # <<>> THEN Some(address)
    ELSE AddressFrom(cleaned_lines, i + 1, Some(<<>>))
AddressFrom(cleaned_lines, i, address) ==
    IF i > Len(cleaned_lines) THEN address
    ELSE IF ~Matches(Word("Address"), cleaned_lines[i])
    THEN AddressFrom(cleaned_lines, i + 1, address)
    ELSE AddressOr(cleaned_lines, i, AddressAt(cleaned_lines, i))
FindAddress(cleaned_lines) == AddressFrom(cleaned_lines, 1, None)

\* A customer name that looks like an address is cleared.
ValidatedName(customer_name) ==
    IF AddressNotName(customer_name) THEN None ELSE customer_name

\* With no customer name, an address that looks like a name becomes the name.
NameFromAddress(customer_name, address) ==
    IF ~Truthy(customer_name) /\ Truthy(address) /\ IsLikelyCustomerName(address)
    THEN [customer_name |-> address, address |-> None]
    ELSE [customer_name |-> customer_name, address |-> address]

\* With no address, a customer name that looks like an address becomes it.
AddressFromName(p) ==
    IF AddressNotName(p.customer_name) /\ ~Truthy(p.address)
    THEN [customer_name |-> None, address |-> p.customer_name]
    ELSE p

\* customer_name and address of the record, from the name and the address as
\* first read from the text
NameAndAddress(captured, found) ==
    AddressFromName(NameFromAddress(ValidatedName(captured), found))

\* ------------------------------------------------------------------------
\* parse_invoice_data: amounts and line items
\* ------------------------------------------------------------------------
\* desc[:255]
DescriptionMaxLen == 255

\* to_decimal(s) for a str or None: what is left of s when only digits, ".",
\* "," and "-" are kept, without ",", as a Decimal; None when that is no number
KeptForDecimal(s) == Strip(SelectSeq(s, LAMBDA c : c \in Digits \cup {".", ",", "-"}))
CleanedToDecimalWithCommas(cleaned) ==
    IF cleaned # <<>> /\ cleaned \notin {<<".">>, <<",">>, <<"-">>}
    THEN ToDecimal(cleaned)
    ELSE PyNone
CleanedToDecimal(cleaned) ==
    IF cleaned # <<>> /\ cleaned \notin {<<".">>, <<",">>, <<"-">>}
    THEN ToDecimal(RemoveSym(cleaned, ","))
    ELSE PyNone
ParseToDecimal(s) ==
    IF ~PyTruthy(s) THEN PyNone ELSE CleanedToDecimal(KeptForDecimal(s.v))

\* A float, for the numbers of an invoice (fewer than 16 digits, no
\* exponent): its integer part and the digits of its fraction, without the
\* zeros at the end.
RECURSIVE NatOf(_)
NatOf(ds) ==
    IF ds = <<>> THEN 0
    ELSE 10 * NatOf(SubSeq(ds, 1, Len(ds) - 1)) + IndexOf(DigitSeq, ds[Len(ds)]) - 1
RECURSIVE DropTrailingZeros(_)
DropTrailingZeros(s) ==
    IF s # <<>> /\ s[Len(s)] = "0" THEN DropTrailingZeros(SubSeq(s, 1, Len(s) - 1)) ELSE s
Float(int, frac) == [int |-> NatOf(int), frac |-> DropTrailingZeros(frac)]
FloatAround(body, dot) ==
    IF dot = 0 - 1 THEN Float(body, <<>>)
    ELSE Float(SubSeq(body, 1, dot), SubSeq(body, dot + 2, Len(body)))
FloatOfBody(body) == FloatAround(body, Find(body, <<".">>))
\* float(n.replace(',', '')), and whether it raises ValueError
FloatOf(n) == FloatOfBody(RemoveSym(n, ","))
FloatRaises(n) == \A i \in 1 .. Len(n) : n[i] \notin Digits

\* a < b for two fractions, and for two floats
FractionLess(a, b) ==
    \E i \in 1 .. Len(b) :
        /\ Len(a) >= i - 1
        /\ SubSeq(a, 1, i - 1) = SubSeq(b, 1, i - 1)
        /\ Len(a) < i \/ IndexOf(DigitSeq, a[i]) < IndexOf(DigitSeq, b[i])
FloatLess(a, b) == a.int < b.int \/ (a.int = b.int /\ FractionLess(a.frac, b.frac))
\* bool(x) and str(x) of a float
FloatTruthy(x) == x.int # 0 \/ x.frac # <<>>
FloatStr(x) == IntStr(x.int) \o <<".">> \o (IF x.frac = <<>> THEN <<"0">> ELSE x.frac)

\* max(float_numbers): the first of the largest
RECURSIVE MaxFloat(_, _)
MaxFloat(fs, best) ==
    IF fs = <<>> THEN best
    ELSE MaxFloat(Tail(fs), IF FloatLess(best, Head(fs)) THEN Head(fs) ELSE best)

\* [0-9\,]+\.?\d*
NumberToken == <<Rep(Digits \cup {","}, 1, Unbounded), Opt({"."}), Star(Digits)>>

\* re.findall(number, s): the matches from left to right, none overlapping
RECURSIVE FindNumbers(_)
NumbersFrom(s, m) ==
    IF ~m.ok THEN <<>>
    ELSE <<SubSeq(s, m.start, m.end - 1)>> \o FindNumbers(SubSeq(s, m.end, Len(s)))
FindNumbers(s) == NumbersFrom(s, Search(NumberToken, s))

\* re.sub(number, '|', s)
RECURSIVE WithoutNumbers(_)
BarFrom(s, m) ==
    IF ~m.ok THEN s
    ELSE SubSeq(s, 1, m.start - 1) \o <<"|">> \o WithoutNumbers(SubSeq(s, m.end, Len(s)))
WithoutNumbers(s) == BarFrom(s, Search(NumberToken, s))

\* [p.strip() for p in text_only.split('|') if p.strip()]
TextParts(line_stripped) ==
    SelectSeq(StripEach(Split(WithoutNumbers(line_stripped), "|")), LAMBDA p : p # <<>>)

\* \b(?:words)\b, in any case
WholeWord(ws) == <<WordBoundary, Words(ws), WordBoundary>>
\* The six groups of words of a header of the item table
HeaderKeywords ==
    <<WholeWord(<<"Sr", "S.N", "Serial">>),
      WholeWord(<<"Item", "Code">>),
      WholeWord(<<"Description", "Desc">>),
      WholeWord(<<"Qty", "Quantity">>),
      WholeWord(<<"Rate", "Price", "Unit">>),
      WholeWord(<<"Value", "Amount">>)>>
KeywordCount(line_stripped) ==
    Cardinality({i \in 1 .. Len(HeaderKeywords) : Search(HeaderKeywords[i], line_stripped).ok})

\* (?:Net\s*Value|Gross\s*Value|Payment|Delivery|Remarks|NOTE)
SummaryLine ==
    <<Alt(<<NetValueLabel, GrossValueLabel, Word("Payment"), Word("Delivery"),
            Word("Remarks"), Word("NOTE")>>)>>

\* The state of the loop over the lines: the items so far, the header seen
\* and its line, the item being built, and whether the loop has ended.
NoItems ==
    [items |-> <<>>, item_section_started |-> FALSE, item_header_idx |-> 0,
     current_item |-> EmptyItem, done |-> FALSE]

\* current_item and ('description' in current_item or 'value' in current_item)
IsPending(current_item) ==
    current_item["description"].ty # "absent" \/ current_item["value"].ty # "absent"
\* items.append(current_item)
WithPending(st) ==
    IF IsPending(st.current_item)
    THEN [st EXCEPT !.items = Append(@, PyDict(st.current_item))]
    ELSE st

\* An empty line: the item being built is finished when it has a description
\* and a value or a quantity.
AfterEmptyLine(st) ==
    IF /\ IsPending(st.current_item)
       /\ PyTruthy(Get(st.current_item, "description"))
       /\ \/ PyTruthy(Get(st.current_item, "value"))
          \/ PyTruthy(Get(st.current_item, "qty"))
    THEN [st EXCEPT !.items = Append(@, PyDict(st.current_item)),
                    !.current_item = EmptyItem]
    ELSE st

\* Whether fn is taken as the quantity of a row with that value
IsQuantity(fn, value) ==
    /\ FloatTruthy(value)
    /\ FloatLess(fn, value)
    /\ FloatLess(Float(<<"0">>, <<"1">>), fn)
    /\ fn.int < 10000
    /\ fn.frac = <<>> \/ IndexOf(DigitSeq, fn.frac[1]) - 1 < 5
\* qty = 1; for fn in float_numbers: the first quantity, as an int
QuantityOf(float_numbers, value) ==
    IF \E i \in 1 .. Len(float_numbers) : IsQuantity(float_numbers[i], value)
    THEN float_numbers[SetMin({i \in 1 .. Len(float_numbers) :
                                  IsQuantity(float_numbers[i], value)})].int
    ELSE 1

\* {'description': desc[:255], 'qty': qty, 'value': to_decimal(str(value)) if value else None}
RowItem(desc, qty, value) ==
    Put(Put(Put(EmptyItem, "description", PyStr(Take(desc, DescriptionMaxLen))),
            "qty", PyInt(qty)),
        "value", IF FloatTruthy(value) THEN ParseToDecimal(PyStr(FloatStr(value)))
                 ELSE PyNone)
RowOf(desc, float_numbers, value) ==
    RowItem(desc, QuantityOf(float_numbers, value), value)
RowOfFloats(desc, float_numbers) ==
    RowOf(desc, float_numbers, MaxFloat(Tail(float_numbers), Head(float_numbers)))

\* Case 1: a line with numbers and text is a row of the table.
TableRow(st, numbers, desc) ==
    IF Len(desc) > 2 /\ \A i \in 1 .. Len(numbers) : ~FloatRaises(numbers[i])
    THEN [st EXCEPT !.items =
                        Append(@, PyDict(RowOfFloats(desc,
                                   [i \in 1 .. Len(numbers) |-> FloatOf(numbers[i])] \o <<>>))),
                    !.current_item = EmptyItem]
    ELSE st

\* Case 2: a line of text is the description of the item being built, or goes
\* on with it.
DescriptionLine(st, desc_text) ==
    IF Len(desc_text) <= 2 THEN st
    ELSE IF st.current_item["description"].ty = "absent"
    THEN [st EXCEPT !.current_item =
                        Put(@, "description", PyStr(Take(desc_text, DescriptionMaxLen)))]
    ELSE [st EXCEPT !.current_item =
                        Put(@, "description",
                            PyStr(Take(st.current_item["description"].v \o <<" ">> \o desc_text,
                                       DescriptionMaxLen)))]

\* Case 3: a line of numbers gives the quantity or the value of the item being
\* built.
NumberOf(st, number, num_val) ==
    IF FloatLess(Float(<<"0">>, <<"1">>), num_val) /\ num_val.int < 1000
       /\ ~Contains(number, <<".">>)
    THEN [st EXCEPT !.current_item = Put(@, "qty", PyInt(num_val.int))]
    ELSE IF st.current_item["value"].ty = "absent"
    THEN [st EXCEPT !.current_item = Put(@, "value", ParseToDecimal(PyStr(number)))]
    ELSE st
NumberLine(st, number) ==
    IF FloatRaises(number) THEN st ELSE NumberOf(st, number, FloatOf(number))

\* A line below the header, by what it holds
ItemLine(st, numbers, text_parts) ==
    CASE numbers # <<>> /\ text_parts # <<>> -> TableRow(st, numbers, Join(text_parts))
      [] numbers = <<>> /\ text_parts # <<>> -> DescriptionLine(st, Join(text_parts))
      [] numbers # <<>> /\ text_parts = <<>> -> NumberLine(st, numbers[1])
      [] OTHER -> st

\* The body of the loop for the idx-th line
AfterLine(st, idx, line_stripped) ==
    CASE line_stripped = <<>> -> AfterEmptyLine(st)
      [] line_stripped # <<>> /\ KeywordCount(line_stripped) >= 3 ->
           [st EXCEPT !.item_section_started = TRUE, !.item_header_idx = idx]
      [] line_stripped # <<>> /\ KeywordCount(line_stripped) < 3
             /\ st.item_section_started /\ idx > st.item_header_idx + 1
             /\ Search(SummaryLine, line_stripped).ok ->
           [WithPending(st) EXCEPT !.done = TRUE]
      [] OTHER ->
           IF st.item_section_started /\ idx > st.item_header_idx
           THEN ItemLine(st, FindNumbers(line_stripped), TextParts(line_stripped))
           ELSE st

\* for idx, line in enumerate(lines), and the item left at its end.  (A
\* summary line appends the item being built and leaves it in place, so the
\* end of the function appends it once more.)
RECURSIVE ItemLoop(_, _, _)
ItemLoop(lines, idx, st) ==
    IF idx > Len(lines) \/ st.done THEN st
    ELSE ItemLoop(lines, idx + 1, AfterLine(st, idx, Strip(lines[idx])))
ParseItems(lines) == WithPending(ItemLoop(lines, 1, NoItems)).items

\* parse_invoice_data(text): customer_name, address and items of the record.
\* captured and found are the name and the address as first read from the
\* text, before the name is validated and the two are told apart.
ParsedRecord(captured, found, p, items) ==
    [customer_name |-> p.customer_name, address |-> p.address,
     captured |-> captured, found |-> found, items |-> items]
ParsedFrom(captured, found, items) ==
    ParsedRecord(captured, found, NameAndAddress(captured, found), items)
ParsedText(normalized_text) ==
    IF normalized_text = <<>>
    THEN [customer_name |-> None, address |-> None, captured |-> None, found |-> None,
          items |-> <<>>]
    ELSE ParsedFrom(ExtractFieldValue(NameLabels, normalized_text),
                    FindAddress(CleanedLines(normalized_text)),
                    ParseItems(Split(normalized_text, "\n")))
ParseInvoiceData(raw) == ParsedText(Strip(raw))

\* The pieces the texts of these runs are made of.
ParsePieces ==
    {Chars("Customer Name"), Chars("Address"), Chars(":"), Chars(" "), Chars("\n"),
     Chars("P.O. Box 455, Dar es Salaam"), Chars("J Doe")}
ParseTexts == PiecesUpTo(ParsePieces, MaxPieces)

\* The tables of these runs: a header line, rows of a description, a quantity
\* and a value, and the line "Net Value".  The rows of a table differ in
\* their descriptions, in their quantities and in their values.
MaxRows == 2
RowDescriptions == {Chars("Engine oil"), Chars("Brake pad"), Chars("Delivery fee")}
RowQuantities == {1, 2, 10}
RowValues == {5, 3000, 5000}
TableRows ==
    {[description |-> d, qty |-> q, value |-> v] :
        d \in RowDescriptions, q \in RowQuantities, v \in RowValues}
DiffersFrom(r, rows) ==
    \A i \in 1 .. Len(rows) :
        /\ rows[i].description # r.description
        /\ rows[i].qty # r.qty
        /\ rows[i].value # r.value
RECURSIVE TablesOf(_)
TablesOf(n) ==
    IF n = 0 THEN {<<>>}
    ELSE {Append(t, r) : t \in TablesOf(n - 1), r \in TableRows}
Tables ==
    UNION {{t \in TablesOf(n) : \A i \in 1 .. n : DiffersFrom(t[i], SubSeq(t, 1, i - 1))} :
              n \in 1 .. MaxRows}
RowText(r) == r.description \o <<" ">> \o IntStr(r.qty) \o <<" ">> \o IntStr(r.value)
RECURSIVE RowLines(_)
RowLines(rows) ==
    IF rows = <<>> THEN <<>> ELSE RowText(Head(rows)) \o <<"\n">> \o RowLines(Tail(rows))
TableHeader == Chars("Description Qty Value")
TableText(rows) == TableHeader \o <<"\n">> \o RowLines(rows) \o Chars("Net Value")
TableTexts == {TableText(rows) : rows \in Tables}

\* The lines below the header of the tables of these runs: rows (one of three
\* numbers, one with a serial number), a line of text, lines of one number,
\* and lines of the summary.  A table has at most MaxItemLines of them.
MaxItemLines == 3
ItemLinePool ==
    {Chars("Engine oil 2 5000"), Chars("Brake pad 2 10 3000"), Chars("2 Brake pad 4 3000"),
     Chars("synthetic grade"), Chars("3"), Chars("4"), Chars("7500"), Chars("Total 5000"),
     Chars("Remarks")}
ItemTexts ==
    {TableHeader \o below :
        below \in PiecesUpTo({<<"\n">> \o l : l \in ItemLinePool}, MaxItemLines)}

InitParse ==
    /\ text \in ParseTexts \cup TableTexts \cup ItemTexts
    /\ store = {}
    /\ loadRuns = 0
    /\ ParseIdle
    /\ ViewIdle
    /\ FieldIdle
    /\ LoadIdle
    /\ ProcIdle

\* parse_invoice_data(text)
ParseCall ==
    /\ parsed = <<>>
    /\ parsed' = ParseInvoiceData(text)
    /\ UNCHANGED <<viewVars, store, text, loadRuns, fieldVars, loadVars, procVars, applied>>

NextParse == ParseCall

SpecParse == InitParse /\ [][NextParse]_vars

\* C9: a captured customer name that looks like an address and not like a
\* name, with no address found in the text, is moved: after the call
\* customer_name is absent and address holds that same string.
C9_AddressLikeNameMoved ==
    parsed # <<>> /\ AddressNotName(parsed.captured) /\ ~Truthy(parsed.found) =>
        parsed.customer_name = None /\ parsed.address = parsed.captured

\* Two decimal numbers, as texts, that are the same number
SameNumber(a, b) == FloatOfBody(a) = FloatOfBody(b)

\* The items of the record as process_invoice_extraction normalises them
NumberedItems == NormalizeItems(parsed.items)

\* C11: a table of a header line, N rows of a description, a quantity and a
\* value, and the line "Net Value" gives N items, in the order of the rows,
\* with line_no 1 .. N, each with the quantity and the value of its row.
C11_TableRowsBecomeItems ==
    \A rows \in Tables :
        parsed # <<>> /\ text = TableText(rows) =>
            /\ Len(NumberedItems) = Len(rows)
            /\ \A i \in 1 .. Len(rows) :
                   /\ NumberedItems[i].v["line_no"] = PyInt(i)
                   /\ NumberedItems[i].v["description"] = PyStr(rows[i].description)
                   /\ NumberedItems[i].v["qty"].ty = "dec"
                   /\ SameNumber(NumberedItems[i].v["qty"].v, IntStr(rows[i].qty))
                   /\ NumberedItems[i].v["value"].ty = "dec"
                   /\ SameNumber(NumberedItems[i].v["value"].v, IntStr(rows[i].value))

\* ------------------------------------------------------------------------
\* match_service_template on its own
\* ------------------------------------------------------------------------
\* The ServiceTemplate rows a store may hold, and the orders in which the
\* query without order_by may return the active ones.
TemplateNames == {"Oil Change", "Tyre Service", "Brake Check"}
TemplateOrders ==
    UNION {{q \in [1 .. n -> TemplateNames] : \A i, j \in 1 .. n : i # j => q[i] # q[j]} :
              n \in 0 .. Cardinality(TemplateNames)}

\* The pieces the descriptions are made of: the keywords in both cases, a
\* separator and a letter.
MatchPieces ==
    {Chars("oil"), Chars("Change"), Chars("tyre"), Chars("BRAKE"), Chars(" "), Chars("s")}
Descriptions == PiecesUpTo(MatchPieces, MaxTextLen)

InitMatch ==
    /\ text \in Descriptions
    /\ \E order \in TemplateOrders :
           extractor = [NewExtractor EXCEPT !.service_templates = order, !.loaded = TRUE]
    /\ store = {}
    /\ loadRuns = 1
    /\ fcall = NoCall
    /\ LoadIdle
    /\ ProcIdle
    /\ ParseIdle
    /\ ViewIdle

\* match_service_template(description), for the text or for None
MatchCall ==
    /\ applied = <<>>
    /\ \E description \in {PyNone, PyStr(text)} :
           applied' = [fn |-> "match_service_template", arg |-> description,
                       val |-> MatchServiceTemplate(extractor, description)]
    /\ UNCHANGED <<viewVars, store, text, loadRuns, fieldVars, loadVars, procVars, parsed>>

NextMatch == MatchCall

SpecMatch == InitMatch /\ [][NextMatch]_vars

Matched == applied # <<>> /\ applied.fn = "match_service_template"

\* The number of keywords of the i-th template in iteration order that occur
\* in the lower-cased description of the call
CountOfTemplate(i) ==
    IF PyTruthy(applied.arg)
    THEN MatchCount(extractor.service_templates[i], Lower(applied.arg.v))
    ELSE 0

\* The i-th template has the highest count, and every template before it a
\* lower one.
FirstOfHighest(i) ==
    \A j \in 1 .. Len(extractor.service_templates) :
        /\ CountOfTemplate(j) <= CountOfTemplate(i)
        /\ j < i => CountOfTemplate(j) < CountOfTemplate(i)

\* C16: match_service_template returns no match exactly when the description
\* is empty or every template's count is zero; otherwise it returns the
\* template of the highest count, the first in iteration order among those
\* that share it.
C16_HighestCountFirstSeen ==
    Matched =>
        /\ applied.val = "" <=>
               \A i \in 1 .. Len(extractor.service_templates) : CountOfTemplate(i) = 0
        /\ applied.val # "" =>
               \E i \in 1 .. Len(extractor.service_templates) :
                   /\ extractor.service_templates[i] = applied.val
                   /\ FirstOfHighest(i)

\* Two templates share the highest count and the earlier one is returned.
C16_Witness ==
    /\ Matched
    /\ \E i, j \in 1 .. Len(extractor.service_templates) :
           /\ i < j
           /\ CountOfTemplate(i) = CountOfTemplate(j)
           /\ CountOfTemplate(i) > 1
           /\ FirstOfHighest(i)
           /\ applied.val = extractor.service_templates[i]

\* ------------------------------------------------------------------------
\* The decimal normalisers on their own
\* ------------------------------------------------------------------------
\* The pieces the amounts are made of: digits with and without thousands
\* separators, a fraction, the signs of a number, a blank and a currency.
DecimalPieces ==
    {Chars("1,234"), Chars("1234"), Chars(".50"), Chars("0"), Chars("."), Chars(","),
     Chars("-"), Chars(" "), Chars("TSH")}
DecimalTexts == PiecesUpTo(DecimalPieces, MaxTextLen)

\* The line of an invoice that carries amount s
GrossValueLine(s) == Chars("Gross Value: ") \o s

InitDecimal ==
    /\ text \in DecimalTexts
    /\ extractor = [NewExtractor EXCEPT !.loaded = TRUE]
    /\ store = {}
    /\ loadRuns = 1
    /\ fcall = NoCall
    /\ LoadIdle
    /\ ProcIdle
    /\ ParseIdle
    /\ ViewIdle

AppliedTo(fn, arg, val) == [fn |-> fn, arg |-> arg, val |-> val]

\* to_decimal(s) of parse_invoice_data, for the text or for None
ToDecimalCall ==
    /\ applied = <<>>
    /\ \E s \in {PyNone, PyStr(text)} :
           applied' = AppliedTo("to_decimal", s, ParseToDecimal(s))
    /\ UNCHANGED <<viewVars, store, text, loadRuns, fieldVars, loadVars, procVars, parsed>>

\* _to_decimal(v) of process_invoice_extraction, for the text, an int, a
\* Decimal or None
ItemValues == <<PyNone, PyStr(text), PyInt(Len(text)), PyDec(Chars("2.50"))>>
ItemToDecimalCall ==
    /\ applied = <<>>
    /\ \E i \in 1 .. Len(ItemValues) :
           applied' = AppliedTo("_to_decimal", ItemValues[i], ItemToDecimal(ItemValues[i]))
    /\ UNCHANGED <<viewVars, store, text, loadRuns, fieldVars, loadVars, procVars, parsed>>

\* extract_amount(text) for the text as the amount of a Gross Value line
ExtractAmountCall ==
    /\ applied = <<>>
    /\ applied' = AppliedTo("extract_amount",
                            FieldValue(extractor, GrossValueLine(text), "amount"),
                            ExtractAmount(extractor, GrossValueLine(text)))
    /\ UNCHANGED <<viewVars, store, text, loadRuns, fieldVars, loadVars, procVars, parsed>>

NextDecimal == ToDecimalCall \/ ItemToDecimalCall \/ ExtractAmountCall

SpecDecimal == InitDecimal /\ [][NextDecimal]_vars

Normalisers == {"to_decimal", "_to_decimal", "extract_amount"}
Normalised == applied # <<>> /\ applied.fn \in Normalisers

\* A str without a letter and without a digit: empty, or blanks and
\* punctuation only
NoNumberIn(x) == x.ty = "str" /\ \A i \in 1 .. Len(x.v) : x.v[i] \notin Alnum

\* C17: a decimal normaliser returns a Decimal or None, never an exception,
\* and None for an argument that is empty or holds punctuation only.  The
\* argument of extract_amount is the amount it took from the text.
C17_NormalisersNeverRaise ==
    Normalised =>
        /\ applied.val.ty \in {"none", "dec"}
        /\ applied.arg.ty \in {"none", "absent"} \/ NoNumberIn(applied.arg) =>
               applied.val = PyNone

\* Each normaliser met an amount of punctuation only that is no number.
C17_Witness ==
    /\ Normalised
    /\ applied.fn = "to_decimal"
    /\ SameValue(applied.arg, PyStr(Chars("-.")))
    /\ applied.val = PyNone

\* The normaliser of the call applied to its argument without the commas
WithoutCommas(x) == IF x.ty = "str" THEN PyStr(RemoveSym(x.v, ",")) ELSE x
AgainWithoutCommas ==
    CASE applied.fn = "to_decimal" -> ParseToDecimal(WithoutCommas(applied.arg))
      [] applied.fn = "_to_decimal" -> ItemToDecimal(WithoutCommas(applied.arg))
      [] applied.fn = "extract_amount" -> AmountOf(WithoutCommas(applied.arg))

\* C18: a normaliser gives for an amount the Decimal it gives for the same
\* amount without its commas (or None for both); "1,234.50" and "1234.50"
\* give the same Decimal.
C18_CommasDoNotMatter ==
    Normalised => SameValue(applied.val, AgainWithoutCommas)

\* to_decimal("1,234.50") is Decimal("1234.50")
C18_Witness ==
    /\ Normalised
    /\ applied.fn \in {"to_decimal", "_to_decimal"}
    /\ SameValue(applied.arg, PyStr(Chars("1,234.50")))
    /\ SameValue(applied.val, PyDec(Chars("1234.50")))

\* ------------------------------------------------------------------------
\* process_invoice_extraction: the decoder's failure, the excerpt
\* ------------------------------------------------------------------------
\* The scan is no image, the decoder ran and its result reports failure.
DecoderReportsFailure ==
    /\ scan.name.some
    /\ \A suffix \in ImageSuffixes : ~EndsWith(Lower(scan.name.v), suffix)
    /\ ~scan.decoder_raises
    /\ ~scan.result.success

\* C19: when the decoder reports failure the call returns a record of the
\* key error alone, holding the decoder's error text as it is, and nothing
\* was extracted: no text, no fields, no load of the rules.
C19_DecoderFailureSurfaced ==
    Returned /\ DecoderReportsFailure =>
        /\ result.path \notin RecordPaths
        /\ Present(result.ret) = {"error"}
        /\ scan.result.error.ty = "str" =>
               SameValue(result.ret["error"], scan.result.error)
        /\ text = <<>>
        /\ Present(fields) = {}
        /\ ~extractor.loaded
        /\ loadRuns = 0

\* A call returned the error text of a decoder that reported failure.
C19_Witness ==
    /\ Returned
    /\ DecoderReportsFailure
    /\ scan.result.error.ty = "str"
    /\ Len(scan.result.error.v) > 0
    /\ SameValue(result.ret["error"], scan.result.error)

\* text[:10000] of the merged record, text[:5000] of the records of
\* extract_all alone: the length at which each path cuts the excerpt
ExcerptLen(path) == IF path = "merged" THEN MergedExcerptLen ELSE FallbackExcerptLen

\* C20: the raw_text of a returned field record is the start of the
\* normalised text up to a maximum length, and that maximum is the same on
\* every path that returns a field record.
C20_OneExcerptLimit ==
    Returned /\ result.path \in RecordPaths =>
        /\ SameValue(result.ret["raw_text"], PyStr(Take(text, ExcerptLen(result.path))))
        /\ \A path \in RecordPaths : ExcerptLen(path) = ExcerptLen(result.path)

\* ------------------------------------------------------------------------
\* extract_all on its own
\* ------------------------------------------------------------------------
\* The lines of a proforma invoice
InvoiceLines ==
    <<Chars("PROFORMA INVOICE"), Chars("Code No: SD-100"), Chars("Customer Name: John Doe"),
      Chars("Tel: 0712345678"), Chars("Reference: T123ABC"),
      Chars("Gross Value: 150,000.00")>>

\* "\n".join(lines)
RECURSIVE JoinLines(_)
JoinLines(lines) ==
    IF lines = <<>> THEN <<>>
    ELSE IF Len(lines) = 1 THEN lines[1]
    ELSE lines[1] \o <<"\n">> \o JoinLines(Tail(lines))

\* The lines of `lines` whose index is in S, in their order
RECURSIVE Picked(_, _, _)
Picked(lines, S, i) ==
    IF i > Len(lines) THEN <<>>
    ELSE (IF i \in S THEN <<lines[i]>> ELSE <<>>) \o Picked(lines, S, i + 1)

\* The invoice with any of its lines left out
InvoiceTexts == {JoinLines(Picked(InvoiceLines, S, 1)) : S \in SUBSET (1 .. Len(InvoiceLines))}
ExampleInvoice == JoinLines(InvoiceLines)

\* Texts of a "Customer Name" label with no value of its own, and at most
\* MaxBelow of these lines below it
MaxBelow == 2
LinesBelow ==
    {<<>>, Chars("Tel: 0712"), Chars("J Doe"), Chars("Address: Box 1"), Chars("Date 1")}
RECURSIVE LinesUpTo(_)
LinesUpTo(n) ==
    IF n = 0 THEN {<<>>}
    ELSE LinesUpTo(n - 1) \cup {ls \o <<l>> : ls \in LinesUpTo(n - 1), l \in LinesBelow}
LabelTexts == {JoinLines(<<Chars("Customer Name:")>> \o ls) : ls \in LinesUpTo(MaxBelow)}

ExtractTexts == InvoiceTexts \cup LabelTexts

InitExtract ==
    /\ text \in ExtractTexts
    /\ store = {}
    /\ extractor = NewExtractor
    /\ loadRuns = 0
    /\ fcall = NoCall
    /\ LoadIdle
    /\ ProcIdle
    /\ ParseIdle
    /\ ViewIdle

\* extract_all(text): the load on first use, then the fields
ExtractAllCall ==
    /\ applied = <<>>
    /\ \E rows \in QueryPatterns(store), fault \in LoadFaults :
           extractor' = LoadPatternsFromDb(extractor, rows, fault)
    /\ loadRuns' = loadRuns + 1
    /\ applied' = AppliedTo("extract_all", PyStr(text), ExtractAll(extractor', text))
    /\ UNCHANGED <<viewVars, store, text, fcall, loadVars, procVars, parsed>>

NextExtract == ExtractAllCall

SpecExtract == InitExtract /\ [][NextExtract]_vars

ExtractedAll == applied # <<>> /\ applied.fn = "extract_all"

\* C21: the record extract_all gives for the example invoice under the
\* default rules holds code_no "SD-100", customer_name "John Doe",
\* customer_tel "0712345678" and amount "150000.00", and no plate_number.
C21_ExampleInvoiceRecord ==
    ExtractedAll /\ text = ExampleInvoice =>
        /\ SameValue(applied.val["code_no"], PyStr(Chars("SD-100")))
        /\ SameValue(applied.val["customer_name"], PyStr(Chars("John Doe")))
        /\ SameValue(applied.val["customer_tel"], PyStr(Chars("0712345678")))
        /\ SameValue(applied.val["amount"], PyStr(Chars("150000.00")))
        /\ applied.val["plate_number"].ty = "absent"

\* Line j is the first non-empty line below a "Customer Name" label without
\* a value, and looks like another label.
LabelBelowNameLabel(lines, j) ==
    /\ Matches(OtherLabel, lines[j])
    /\ \E i \in 1 .. Len(lines) :
           Matches(NameLabelOnly, lines[i]) /\ NextNonEmpty(lines, i) = j

\* C27: the line of another label that follows a "Customer Name" label
\* without a value is not returned as customer_name.
C27_LabelLineNeverName ==
    ExtractedAll =>
        \A j \in 1 .. Len(Split(text, "\n")) :
            LabelBelowNameLabel(StripEach(Split(text, "\n")), j) =>
                ~SameValue(applied.val["customer_name"],
                           PyStr(StripEach(Split(text, "\n"))[j]))

\* ------------------------------------------------------------------------
\* parse_invoice_data: the lines of the item table
\* ------------------------------------------------------------------------
\* The text is a header line with lines below it; those lines.
IsItemText == Len(text) >= Len(TableHeader) /\ SubSeq(text, 1, Len(TableHeader)) = TableHeader
LinesOfText == Split(text, "\n")
TableLines == Tail(LinesOfText)

\* A line by what it holds: numeric tokens and text, text alone, numeric
\* tokens alone
IsRowLine(l) == FindNumbers(l) # <<>> /\ TextParts(l) # <<>>
IsTextLine(l) == FindNumbers(l) = <<>> /\ TextParts(l) # <<>>
IsNumberLine(l) == FindNumbers(l) # <<>> /\ TextParts(l) = <<>>

\* The totals/summary vocabulary: net value, gross value, total, payment
\* terms, delivery terms, remarks
TotalsVocabulary ==
    <<Alt(<<NetValueLabel, GrossValueLabel, Word("Total"),
            Word("Payment") \o <<WS>> \o Word("Terms"),
            Word("Delivery") \o <<WS>> \o Word("Terms"), Word("Remarks")>>)>>
IsTotalsLine(l) == Search(TotalsVocabulary, l).ok

\* The descriptions of the items of a table of rows and lines of text: a row
\* gives an item, a line of text goes to the description of the item before
\* it, or nowhere when there is none.
RECURSIVE DescriptionsOf(_, _)
ContinuedBy(acc, l) ==
    IF acc = <<>> THEN acc
    ELSE [acc EXCEPT ![Len(acc)] = @ \o <<" ">> \o Join(TextParts(l))]
DescriptionsOf(lines, acc) ==
    IF lines = <<>> THEN acc
    ELSE IF IsRowLine(Head(lines))
    THEN DescriptionsOf(Tail(lines), Append(acc, Join(TextParts(Head(lines)))))
    ELSE DescriptionsOf(Tail(lines), ContinuedBy(acc, Head(lines)))

ParsedDescriptions ==
    [i \in 1 .. Len(parsed.items) |->
        IF parsed.items[i].v["description"].ty = "str"
        THEN parsed.items[i].v["description"].v ELSE <<>>]

\* C22: in a table of rows and lines of text, a line of text after a row
\* goes to the description of that row's item and makes no item; before the
\* first row it is ignored.
C22_TextLineContinuesItem ==
    parsed # <<>> /\ IsItemText
        /\ (\A i \in 1 .. Len(TableLines) :
                (IsRowLine(TableLines[i]) \/ IsTextLine(TableLines[i]))
                    /\ ~IsTotalsLine(TableLines[i])) =>
            ParsedDescriptions = DescriptionsOf(TableLines, <<>>)

\* Two lists of items hold the same descriptions, quantities and values.
SameItems(a, b) ==
    /\ Len(a) = Len(b)
    /\ \A i \in 1 .. Len(a) :
           \A k \in {"description", "qty", "value"} : SameValue(a[i].v[k], b[i].v[k])

\* The digits a line starts with, and a row that starts with a serial number:
\* an integer under 100, a blank and text
SerialLen(l) == MinOr({i \in 1 .. Len(l) : l[i] \notin Digits}, Len(l) + 1) - 1
HasSerial(l) ==
    /\ IsRowLine(l)
    /\ SerialLen(l) \in 1 .. 2
    /\ Len(l) >= SerialLen(l) + 2
    /\ l[SerialLen(l) + 1] = " "
    /\ l[SerialLen(l) + 2] \in Letters
WithoutSerial(l) == IF HasSerial(l) THEN SubSeq(l, SerialLen(l) + 2, Len(l)) ELSE l
WithoutSerials(lines) == [i \in 1 .. Len(lines) |-> WithoutSerial(lines[i])] \o <<>>

\* C23: in a table of rows, the items are those of the same rows without
\* their serial numbers: a leading integer under 100 is neither the quantity
\* nor the value of its row's item.
C23_SerialNumberStripped ==
    parsed # <<>> /\ IsItemText
        /\ (\A i \in 1 .. Len(TableLines) :
                IsRowLine(TableLines[i]) /\ ~IsTotalsLine(TableLines[i])) =>
            SameItems(parsed.items, ParseItems(WithoutSerials(LinesOfText)))

\* The numeric tokens of a row as numbers, the largest of them, and the
\* tokens below the largest
TokensOf(l) == [j \in 1 .. Len(FindNumbers(l)) |-> FloatOf(FindNumbers(l)[j])] \o <<>>
LargestOf(fs) == MaxFloat(Tail(fs), Head(fs))
BelowLargest(fs) == SelectSeq(fs, LAMBDA f : FloatLess(f, LargestOf(fs)))

\* The item of a row has the largest token as its value, and the
\* second-largest as its quantity when there is one in the range of a
\* quantity.
ValueIsLargest(it, fs) ==
    SameValue(it.v["value"], ParseToDecimal(PyStr(FloatStr(LargestOf(fs)))))
QuantityIsSecondLargest(it, fs) ==
    BelowLargest(fs) # <<>> /\ IsQuantity(LargestOf(BelowLargest(fs)), LargestOf(fs)) =>
        SameValue(it.v["qty"], PyInt(LargestOf(BelowLargest(fs)).int))

\* C24: in a table of rows without serial numbers, the item of each row has
\* the largest numeric token of the row as its value and the second-largest,
\* when it is a plausible quantity, as its quantity.
C24_QuantityIsSecondLargest ==
    parsed # <<>> /\ IsItemText
        /\ (\A i \in 1 .. Len(TableLines) :
                IsRowLine(TableLines[i]) /\ ~IsTotalsLine(TableLines[i])
                    /\ ~HasSerial(TableLines[i])) =>
            /\ Len(parsed.items) = Len(TableLines)
            /\ \A i \in 1 .. Len(TableLines) :
                   /\ ValueIsLargest(parsed.items[i], TokensOf(TableLines[i]))
                   /\ QuantityIsSecondLargest(parsed.items[i], TokensOf(TableLines[i]))

\* The items the text gives without its last line
ItemsBeforeLastLine == ParseItems(SubSeq(LinesOfText, 1, Len(LinesOfText) - 1))

\* Field k of item `before` is kept in item `after` when it was set.
KeptWhenSet(before, after, k) ==
    before.v[k].ty \notin {"absent", "none"} => SameValue(after.v[k], before.v[k])

\* C25: a line of numeric tokens alone at the end of a table leaves the
\* number of items as it was, and leaves every quantity and every value that
\* was set before it as it was.
C25_NumberLineFillsGapsOnly ==
    parsed # <<>> /\ IsItemText /\ Len(TableLines) >= 1
        /\ IsNumberLine(TableLines[Len(TableLines)])
        /\ (\A i \in 1 .. Len(TableLines) : ~IsTotalsLine(TableLines[i])) =>
            /\ Len(parsed.items) = Len(ItemsBeforeLastLine)
            /\ \A i \in 1 .. Len(ItemsBeforeLastLine) :
                   i <= Len(parsed.items) =>
                       /\ KeptWhenSet(ItemsBeforeLastLine[i], parsed.items[i], "qty")
                       /\ KeptWhenSet(ItemsBeforeLastLine[i], parsed.items[i], "value")

\* The first line more than one line below the header that is of the totals
\* vocabulary (0: there is none); the header is line 1.
FirstTotalsLine ==
    MinOr({i \in 3 .. Len(LinesOfText) : IsTotalsLine(LinesOfText[i])}, 0)

\* C26: the first totals line more than one line below the header ends the
\* table: the items are those of the lines above it.
C26_TotalsLineEndsTable ==
    parsed # <<>> /\ IsItemText /\ FirstTotalsLine # 0 =>
        SameItems(parsed.items, ParseItems(SubSeq(LinesOfText, 1, FirstTotalsLine - 1)))

\* ------------------------------------------------------------------------
\* The invoice views: invoice_detail, invoice_finalize, invoice_cancel
\* ------------------------------------------------------------------------
\* Every view reads the Invoice row into an object of its own with
\* get_object_or_404 and works on that object; the views hold no lock and
\* open no transaction, and save() writes the fields of the object back, so
\* the statements of requests served at the same time interleave.
MaxRequests == 3

\* The line item an invoice may hold before the first request.
FirstItemId == 1

InvoiceViews == {"add_line_item", "delete_line_item", "invoice_finalize", "invoice_cancel"}

\* What a request posts: whether InvoiceLineItemForm is valid, and item_id.
ViewInputs ==
    {[view |-> "add_line_item", valid |-> b, item_id |-> 0] : b \in BOOLEAN}
    \cup {[view |-> "delete_line_item", valid |-> TRUE, item_id |-> k] :
              k \in FirstItemId .. FirstItemId + 1}
    \cup {[view |-> v, valid |-> TRUE, item_id |-> 0] :
              v \in {"invoice_finalize", "invoice_cancel"}}

InitInvoice ==
    /\ store = {}
    /\ text = <<>>
    /\ loadRuns = 0
    /\ FieldIdle
    /\ LoadIdle
    /\ ProcIdle
    /\ ParseIdle
    /\ invoiceRow = [status |-> "draft"]
    /\ lineItems \in {{}, {FirstItemId}}
    /\ orders = <<>>
    /\ requests = <<>>

AtPosition(i, view, pc) ==
    /\ i \in DOMAIN requests
    /\ requests[i].view = view
    /\ requests[i].pc = pc

Answered(i, message) ==
    [requests EXCEPT ![i].pc = "done", ![i].response = message]

\* The id the database gives the next InvoiceLineItem row.
NewItemId ==
    FirstItemId + 1
        + Cardinality({i \in DOMAIN requests : requests[i].response = "Line item added."})

\* invoice = get_object_or_404(Invoice, pk=pk), the first statement of
\* each of the views.
GetObject(input) ==
    /\ Len(requests) < MaxRequests
    /\ requests' = Append(requests,
           [view |-> input.view, valid |-> input.valid, item_id |-> input.item_id,
            invoice |-> invoiceRow, pc |-> "got", response |-> ""])
    /\ UNCHANGED <<extractionVars, orders, invoiceRow, lineItems>>

AddLineItem(i) ==
    /\ AtPosition(i, "add_line_item", "got")
    /\ IF requests[i].valid
       THEN /\ lineItems' = lineItems \cup {NewItemId}
            /\ requests' = Answered(i, "Line item added.")
       ELSE /\ requests' = Answered(i, "")
            /\ UNCHANGED lineItems
    /\ UNCHANGED <<extractionVars, orders, invoiceRow>>

\* InvoiceLineItem.objects.get(id=item_id, invoice=invoice); item.delete()
DeleteLineItem(i) ==
    /\ AtPosition(i, "delete_line_item", "got")
    /\ IF requests[i].item_id \in lineItems
       THEN /\ lineItems' = lineItems \ {requests[i].item_id}
            /\ requests' = [requests EXCEPT ![i].pc = "deleted"]
       ELSE /\ requests' = Answered(i, "Line item not found.")
            /\ UNCHANGED lineItems
    /\ UNCHANGED <<extractionVars, orders, invoiceRow>>

\* invoice.calculate_totals().save(): the object the request read goes
\* back to the row, its status with it.
SaveTotals(i) ==
    /\ AtPosition(i, "delete_line_item", "deleted")
    /\ invoiceRow' = requests[i].invoice
    /\ requests' = Answered(i, "Line item deleted.")
    /\ UNCHANGED <<extractionVars, orders, lineItems>>

\* invoice_finalize up to invoice.line_items.count()
CountLineItems(i) ==
    /\ AtPosition(i, "invoice_finalize", "got")
    /\ requests' =
           IF requests[i].invoice.status # "draft" THEN Answered(i, "")
           ELSE IF Cardinality(lineItems) = 0
                THEN Answered(i, "Invoice must have at least one line item.")
                ELSE [requests EXCEPT ![i].pc = "counted"]
    /\ UNCHANGED <<extractionVars, orders, invoiceRow, lineItems>>

\* invoice.status = 'issued'; invoice.save()
SaveIssued(i) ==
    /\ AtPosition(i, "invoice_finalize", "counted")
    /\ invoiceRow' = [requests[i].invoice EXCEPT !.status = "issued"]
    /\ requests' = Answered(i, "finalized")
    /\ UNCHANGED <<extractionVars, orders, lineItems>>

\* invoice_cancel after its read
SaveCancelled(i) ==
    /\ AtPosition(i, "invoice_cancel", "got")
    /\ IF requests[i].invoice.status # "cancelled"
       THEN /\ invoiceRow' = [requests[i].invoice EXCEPT !.status = "cancelled"]
            /\ requests' = Answered(i, "cancelled")
       ELSE /\ requests' = Answered(i, "")
            /\ UNCHANGED invoiceRow
    /\ UNCHANGED <<extractionVars, orders, lineItems>>

NextInvoice ==
    \/ \E input \in ViewInputs : GetObject(input)
    \/ \E i \in 1 .. MaxRequests : AddLineItem(i)
    \/ \E i \in 1 .. MaxRequests : DeleteLineItem(i)
    \/ \E i \in 1 .. MaxRequests : SaveTotals(i)
    \/ \E i \in 1 .. MaxRequests : CountLineItems(i)
    \/ \E i \in 1 .. MaxRequests : SaveIssued(i)
    \/ \E i \in 1 .. MaxRequests : SaveCancelled(i)

SpecInvoice == InitInvoice /\ [][NextInvoice]_vars

RequestsOf(views) == \A i \in DOMAIN requests : requests[i].view \in views

\* C28: an invoice whose stored status is 'issued' has at least one line
\* item, whatever add_line_item, delete_line_item and invoice_finalize
\* requests were served on it and however their statements interleaved.
C28_IssuedHasLineItem ==
    /\ requests # <<>>
    /\ RequestsOf({"add_line_item", "delete_line_item", "invoice_finalize"})
    /\ invoiceRow.status = "issued"
    => lineItems # {}

\* C29: once the stored status is 'cancelled', no step of an
\* invoice_finalize or invoice_cancel request stores another status; a
\* finalize that read 'draft' before the cancel does not store 'issued'.
C29_CancelledIsFinal ==
    [][(/\ invoiceRow.status = "cancelled"
        /\ \A i \in DOMAIN requests' :
               requests'[i].view \in {"invoice_finalize", "invoice_cancel"})
       => invoiceRow'.status = "cancelled"]_vars

\* ------------------------------------------------------------------------
\* start_quick_order
\* ------------------------------------------------------------------------
\* The view looks for an order of the job card in the user's branch and
\* creates one when it finds none; the two statements are separate queries
\* with no lock and no transaction around them.  The Order model is not
\* among the sources: whether the table refuses a second row of a job card
\* is left open, and both tables are modelled, CreateOrder for the one
\* that takes the row and RefuseOrder for the one that raises.
JobCards == {"", "JC1", "JC2"}
NBranches == 2
Branches == 1 .. NBranches

OrderRow(job, branch) == [job_card_number |-> job, branch |-> branch]

InitOrder ==
    /\ store = {}
    /\ text = <<>>
    /\ loadRuns = 0
    /\ FieldIdle
    /\ LoadIdle
    /\ ProcIdle
    /\ ParseIdle
    /\ invoiceRow = <<>>
    /\ lineItems = {}
    /\ orders \in {<<>>, <<OrderRow("JC1", 1)>>}
    /\ requests = <<>>

\* Order.objects.filter(job_card_number=..., branch=user_branch).first()
OrderIn(rows, job, branch) ==
    \E k \in DOMAIN rows :
        rows[k].job_card_number = job /\ rows[k].branch = branch

\* The request up to the answer of the existence check.
FindExisting(job, branch) ==
    /\ Len(requests) < MaxRequests
    /\ requests' = Append(requests,
           [view |-> "start_quick_order", job_card_number |-> job, branch |-> branch,
            pc |-> IF job # "" /\ ~OrderIn(orders, job, branch) THEN "checked" ELSE "done",
            response |-> IF job = "" THEN "Job card number is required"
                         ELSE IF OrderIn(orders, job, branch)
                              THEN "Order with this job card already exists"
                              ELSE ""])
    /\ UNCHANGED <<extractionVars, invoiceRow, lineItems, orders>>

NoTwoOrders(rows) ==
    \A a, b \in DOMAIN rows : rows[a] = rows[b] => a = b

Refused == \E i \in DOMAIN requests : requests[i].response = "IntegrityError"

\* Order.objects.create(...) on a table that takes the row.
CreateOrder(i) ==
    /\ AtPosition(i, "start_quick_order", "checked")
    /\ Refused => ~OrderIn(orders, requests[i].job_card_number, requests[i].branch)
    /\ orders' = Append(orders, OrderRow(requests[i].job_card_number, requests[i].branch))
    /\ requests' = Answered(i, "Quick order started. Upload document to fill in details.")
    /\ UNCHANGED <<extractionVars, invoiceRow, lineItems>>

\* Order.objects.create(...) on a table that refuses the second row of a
\* job card: the exception ends in the except branch of the view.
RefuseOrder(i) ==
    /\ AtPosition(i, "start_quick_order", "checked")
    /\ NoTwoOrders(orders)
    /\ OrderIn(orders, requests[i].job_card_number, requests[i].branch)
    /\ requests' = Answered(i, "IntegrityError")
    /\ UNCHANGED <<extractionVars, invoiceRow, lineItems, orders>>

NextOrder ==
    \/ \E job \in JobCards, branch \in Branches : FindExisting(job, branch)
    \/ \E i \in 1 .. MaxRequests : CreateOrder(i)
    \/ \E i \in 1 .. MaxRequests : RefuseOrder(i)

SpecOrder == InitOrder /\ [][NextOrder]_vars

\* The request i gets its answer in this step.
AnsweredNow(i) ==
    /\ i \in DOMAIN requests'
    /\ requests'[i].pc = "done"
    /\ i \in DOMAIN requests => requests[i].pc # "done"

\* C30: whatever the interleaving of start_quick_order requests, a branch
\* never holds two orders of one job card, and a request answered while its
\* job card has an order in the branch gets 'Order with this job card
\* already exists' and creates nothing.
C30_JobCardUniquePerBranch ==
    [][/\ NoTwoOrders(orders')
       /\ \A i \in 1 .. MaxRequests :
              AnsweredNow(i)
              /\ OrderIn(orders, requests'[i].job_card_number, requests'[i].branch)
              => /\ requests'[i].response = "Order with this job card already exists"
                 /\ orders' = orders]_vars

====
